---- MODULE Spec2Model ----
(***************************************************************************)
(* Model of tauri-plugin-notifications: the Windows toast adapter          *)
(* (src/src/windows.rs), the macOS bridge adapter (src/src/macos.rs), the  *)
(* notify-rust desktop adapter (src/src/desktop.rs) and the Windows        *)
(* schedule/time conversion functions.                                     *)
(***************************************************************************)
EXTENDS Integers, Sequences, FiniteSets, TLC

(***************************************************************************)
(* Wide integers.  The conversion code computes in i128 and the values     *)
(* (nanoseconds since 1970, 100 ns ticks since 1601) exceed the range of   *)
(* 32-bit integers, so a wide integer is a sign and a magnitude held as    *)
(* little-endian limbs in base 10^4, without leading zero limbs.           *)
(***************************************************************************)
Base == 10000

RECURSIVE MagNorm(_)
MagNorm(m) ==
    IF m = <<>> THEN <<>>
    ELSE IF m[Len(m)] = 0 THEN MagNorm(SubSeq(m, 1, Len(m) - 1))
    ELSE m

Limb(m, i) == IF i <= Len(m) THEN m[i] ELSE 0

MaxOf(a, b) == IF a >= b THEN a ELSE b

RECURSIVE MagCmpFrom(_, _, _)
\* compares limbs i, i-1, ..., 1: -1, 0 or 1
MagCmpFrom(a, b, i) ==
    IF i = 0 THEN 0
    ELSE IF Limb(a, i) < Limb(b, i) THEN -1
    ELSE IF Limb(a, i) > Limb(b, i) THEN 1
    ELSE MagCmpFrom(a, b, i - 1)

MagCmp(a, b) == MagCmpFrom(a, b, MaxOf(Len(a), Len(b)))

RECURSIVE MagAddFrom(_, _, _, _)
MagAddFrom(a, b, i, carry) ==
    IF i > MaxOf(Len(a), Len(b))
    THEN (IF carry = 0 THEN <<>> ELSE <<carry>>)
    ELSE LET s == Limb(a, i) + Limb(b, i) + carry
         IN  <<s % Base>> \o MagAddFrom(a, b, i + 1, s \div Base)

MagAdd(a, b) == MagNorm(MagAddFrom(a, b, 1, 0))

RECURSIVE MagSubFrom(_, _, _, _)
\* a - b for a >= b
MagSubFrom(a, b, i, borrow) ==
    IF i > Len(a) THEN <<>>
    ELSE LET d == Limb(a, i) - Limb(b, i) - borrow
         IN  IF d < 0
             THEN <<d + Base>> \o MagSubFrom(a, b, i + 1, 1)
             ELSE <<d>> \o MagSubFrom(a, b, i + 1, 0)

MagSub(a, b) == MagNorm(MagSubFrom(a, b, 1, 0))

RECURSIVE MagMulFrom(_, _, _, _)
\* a * k for 0 <= k < Base
MagMulFrom(a, k, i, carry) ==
    IF i > Len(a)
    THEN (IF carry = 0 THEN <<>> ELSE <<carry>>)
    ELSE LET p == a[i] * k + carry
         IN  <<p % Base>> \o MagMulFrom(a, k, i + 1, p \div Base)

MagMul(a, k) == MagNorm(MagMulFrom(a, k, 1, 0))

RECURSIVE MagDivFrom(_, _, _, _)
\* quotient limbs of a \div k for 0 < k < Base, from limb i down, big-endian
MagDivFrom(a, k, i, rem) ==
    IF i = 0 THEN <<>>
    ELSE LET cur == rem * Base + a[i]
         IN  MagDivFrom(a, k, i - 1, cur % k) \o <<cur \div k>>

MagDiv(a, k) == MagNorm(MagDivFrom(a, k, Len(a), 0))

RECURSIVE MagModFrom(_, _, _, _)
MagModFrom(a, k, i, rem) ==
    IF i = 0 THEN rem
    ELSE MagModFrom(a, k, i - 1, (rem * Base + a[i]) % k)

MagMod(a, k) == MagModFrom(a, k, Len(a), 0)

W(neg, mag) ==
    LET m == MagNorm(mag)
    IN  [neg |-> (neg /\ m # <<>>), mag |-> m]

WZero == W(FALSE, <<>>)

WFromInt(n) ==
    IF n >= 0
    THEN W(FALSE, <<n % Base, (n \div Base) % Base, n \div (Base * Base)>>)
    ELSE W(TRUE, <<(-n) % Base, ((-n) \div Base) % Base, (-n) \div (Base * Base)>>)

WNeg(a) == W(~a.neg, a.mag)

WAdd(a, b) ==
    IF a.neg = b.neg THEN W(a.neg, MagAdd(a.mag, b.mag))
    ELSE IF MagCmp(a.mag, b.mag) >= 0 THEN W(a.neg, MagSub(a.mag, b.mag))
    ELSE W(b.neg, MagSub(b.mag, a.mag))

WSub(a, b) == WAdd(a, WNeg(b))

\* a * k for a small k >= 0
WMul(a, k) == W(a.neg, MagMul(a.mag, k))

\* Rust's integer division: the quotient is truncated toward zero
WDivTrunc(a, k) == W(a.neg, MagDiv(a.mag, k))

\* Rust's remainder: it has the sign of the dividend
WRemTrunc(a, k) == IF a.neg THEN -MagMod(a.mag, k) ELSE MagMod(a.mag, k)

WCmp(a, b) ==
    IF a.neg /\ ~b.neg THEN -1
    ELSE IF ~a.neg /\ b.neg THEN 1
    ELSE IF a.neg THEN MagCmp(b.mag, a.mag)
    ELSE MagCmp(a.mag, b.mag)

WLe(a, b) == WCmp(a, b) <= 0
WLt(a, b) == WCmp(a, b) < 0

WAbs(a) == W(FALSE, a.mag)

RECURSIVE WFromGroups(_, _)
\* the value of a decimal literal written in groups of three digits,
\* as the source writes 116_444_736_000_000_000
WFromGroups(groups, acc) ==
    IF groups = <<>> THEN acc
    ELSE WFromGroups(Tail(groups), WAdd(WMul(acc, 1000), WFromInt(groups[1])))

\* seconds and nanoseconds to a nanosecond count
WNanos(secs, nanos) ==
    WAdd(WMul(WMul(WMul(WFromInt(secs), 1000), 1000), 1000), WFromInt(nanos))


(***************************************************************************)
(* Time conversion (src/src/windows.rs).  A time::OffsetDateTime is held   *)
(* as its unix_timestamp_nanos(), a Windows DateTime as its UniversalTime  *)
(* tick count; both are wide integers.  A crate::Result is a record with   *)
(* ok = TRUE and the value, or ok = FALSE and the error.                   *)
(***************************************************************************)
\* Option<T>: None is the empty sequence, Some(v) the one-element sequence
None == <<>>
Some(v) == <<v>>

Ok(v) == [ok |-> TRUE, val |-> v]
Err(e) == [ok |-> FALSE, err |-> e]

\* crate::Error::Io(std::io::Error::other(message))
Io(message) == [kind |-> "Io", message |-> message]

\* const WINDOWS_EPOCH_OFFSET_TICKS: i128 = 116_444_736_000_000_000
WINDOWS_EPOCH_OFFSET_TICKS == WFromGroups(<<116, 444, 736, 0, 0, 0>>, WZero)

\* the range of i64, the type of DateTime.UniversalTime
I64Max == WFromGroups(<<9, 223, 372, 36, 854, 775, 807>>, WZero)
I64Min == WNeg(WFromGroups(<<9, 223, 372, 36, 854, 775, 808>>, WZero))

\* the range of time::OffsetDateTime: -9999-01-01T00:00:00 to
\* 9999-12-31T23:59:59.999999999 UTC, in nanoseconds since 1970
DateMax == WFromGroups(<<253, 402, 300, 799, 999, 999, 999>>, WZero)
DateMin == WNeg(WFromGroups(<<377, 705, 116, 800, 0, 0, 0>>, WZero))

InDateRange(n) == WLe(DateMin, n) /\ WLe(n, DateMax)

\* i128 -> i64 by try_into
TryIntoI64(n) == IF WLe(I64Min, n) /\ WLe(n, I64Max) THEN Ok(n) ELSE Err([kind |-> "TryFromIntError", message |-> ""])

\* time::OffsetDateTime::from_unix_timestamp_nanos
from_unix_timestamp_nanos(n) == IF InDateRange(n) THEN Ok(n) ELSE Err([kind |-> "ComponentRange", message |-> ""])

\* the divisor of a mutated conversion: microseconds instead of 100 ns ticks
unix_to_windows_datetime_coarse(time) ==
    LET windows_ticks == WAdd(WDivTrunc(time, 1000), WINDOWS_EPOCH_OFFSET_TICKS)
        ticks == TryIntoI64(windows_ticks)
    IN  IF ticks.ok THEN Ok(ticks.val) ELSE Err(Io("Schedule date out of range"))

\* a mutated conversion: ticks since 1970, the epoch offset left out
unix_to_windows_datetime_no_offset(time) ==
    LET ticks == TryIntoI64(WDivTrunc(time, 100))
    IN  IF ticks.ok THEN Ok(ticks.val) ELSE Err(Io("Schedule date out of range"))

unix_to_windows_datetime(time) ==
    LET unix_nanos == time
        windows_ticks == WAdd(WDivTrunc(unix_nanos, 100), WINDOWS_EPOCH_OFFSET_TICKS)
        ticks == TryIntoI64(windows_ticks)
    IN  IF ticks.ok THEN Ok(ticks.val) ELSE Err(Io("Schedule date out of range"))

windows_datetime_to_unix(dt) ==
    LET windows_ticks == dt
        unix_nanos == WMul(WSub(windows_ticks, WINDOWS_EPOCH_OFFSET_TICKS), 100)
        date == from_unix_timestamp_nanos(unix_nanos)
    IN  IF date.ok THEN Ok(date.val) ELSE Err(Io("DateTime out of range"))

\* a mutated default: an absent field counts as 1
unwrap_or_1(field) == IF field = None THEN 1 ELSE field[1]

\* a mutated table of units: calendar lengths for Year and Month
base_seconds_calendar(interval) ==
    CASE interval = "Year" -> 366 * 86400
      [] interval = "Month" -> 31 * 86400
      [] interval = "TwoWeeks" -> 14 * 86400
      [] interval = "Week" -> 7 * 86400
      [] interval = "Day" -> 86400
      [] interval = "Hour" -> 3600
      [] interval = "Minute" -> 60
      [] interval = "Second" -> 1

\* interval.<field>.unwrap_or(0)
unwrap_or_0(field) == IF field = None THEN 0 ELSE field[1]

\* ScheduleEvery -> base_seconds
base_seconds(interval) ==
    CASE interval = "Year" -> 365 * 86400
      [] interval = "Month" -> 30 * 86400
      [] interval = "TwoWeeks" -> 14 * 86400
      [] interval = "Week" -> 7 * 86400
      [] interval = "Day" -> 86400
      [] interval = "Hour" -> 3600
      [] interval = "Minute" -> 60
      [] interval = "Second" -> 1

\* now + time::Duration::seconds(secs), secs a wide integer; the addition
\* panics when the sum leaves the range of OffsetDateTime
AddSeconds(now, secs) ==
    LET sum == WAdd(now, WMul(WMul(WMul(secs, 1000), 1000), 1000))
    IN  IF InDateRange(sum) THEN Ok(sum) ELSE Err([kind |-> "panic", message |-> "overflow adding duration to date"])

schedule_to_datetime(schedule, now) ==
    LET delivery_time ==
            CASE schedule.kind = "At" -> Ok(schedule.date)
              [] schedule.kind = "Interval" ->
                    LET seconds == unwrap_or_0(schedule.interval.second)
                        minutes == unwrap_or_0(schedule.interval.minute)
                        hours == unwrap_or_0(schedule.interval.hour)
                        days == unwrap_or_0(schedule.interval.day)
                        total_seconds == seconds + minutes * 60 + hours * 3600 + days * 86400
                    IN  AddSeconds(now, WFromInt(total_seconds))
              [] schedule.kind = "Every" ->
                    AddSeconds(now, WMul(WFromInt(base_seconds(schedule.interval)), schedule.count))
    IN  IF delivery_time.ok THEN unix_to_windows_datetime(delivery_time.val) ELSE delivery_time

ScheduleAt(date, repeating, allow_while_idle) ==
    [kind |-> "At", date |-> date, repeating |-> repeating,
     allow_while_idle |-> allow_while_idle]


(***************************************************************************)
(* Strings that are converted: a notification tag is the decimal text of   *)
(* the id, held as a sequence of characters, so that id.to_string() and    *)
(* tag.parse::<i32>() are conversions and not the identity.                *)
(***************************************************************************)
DigitChars == <<"0", "1", "2", "3", "4", "5", "6", "7", "8", "9">>

RECURSIVE NatToChars(_)
NatToChars(n) ==
    IF n < 10 THEN <<DigitChars[n + 1]>>
    ELSE NatToChars(n \div 10) \o <<DigitChars[(n % 10) + 1]>>

\* i32::to_string
i32_to_string(i) == IF i < 0 THEN <<"-">> \o NatToChars(-i) ELSE NatToChars(i)

IsDigit(c) == \E d \in 1..10 : DigitChars[d] = c
DigitVal(c) == (CHOOSE d \in 1..10 : DigitChars[d] = c) - 1

RECURSIVE ParseDigits(_, _)
\* the value of a digit string, or -1 when a character is no digit or the
\* value exceeds i32::MAX
ParseDigits(chars, acc) ==
    IF chars = <<>> THEN acc
    ELSE IF ~IsDigit(chars[1]) THEN -1
    ELSE IF acc > 214748364 \/ (acc = 214748364 /\ DigitVal(chars[1]) > 7) THEN -1
    ELSE ParseDigits(Tail(chars), acc * 10 + DigitVal(chars[1]))

\* str::parse::<i32>: an optional sign, then at least one digit
parse_i32(chars) ==
    LET signed == chars # <<>> /\ chars[1] \in {"-", "+"}
        digits == IF signed THEN Tail(chars) ELSE chars
        v == IF digits = <<>> THEN -1 ELSE ParseDigits(digits, 0)
    IN  IF v = -1 THEN Err([kind |-> "ParseIntError", message |-> ""])
        ELSE IF signed /\ chars[1] = "-" THEN Ok(-v)
        ELSE Ok(v)

(***************************************************************************)
(* Sequence helpers.                                                       *)
(***************************************************************************)
RECURSIVE SelectIdx(_, _, _)
\* the elements of s whose index is in keep, in order, from index i on
SelectIdx(s, keep, i) ==
    IF i > Len(s) THEN <<>>
    ELSE IF i \in keep THEN <<s[i]>> \o SelectIdx(s, keep, i + 1)
    ELSE SelectIdx(s, keep, i + 1)

KeepIdx(s, keep) == SelectIdx(s, keep, 1)

Range(s) == {s[i] : i \in DOMAIN s}



(***************************************************************************)
(* Bounds and input sets of the adapter model.                             *)
(***************************************************************************)
\* notification ids given to show() are 1..MaxId
MaxId == 2
\* the native stores hold at most MaxToasts toasts, scheduled and shown together
MaxToasts == 2

Ids == 1..MaxId
\* the id lists given to cancel() and remove_active(): one id, an id no toast
\* carries (0), every id
OneId == <<1>>
NoSuchId == <<0>>
AllIds == [i \in 1..MaxId |-> i]


\* the remaining fields of NotificationData that the adapters read, drawn together
FirstContent ==
    [title |-> Some("Title"), body |-> Some("Body"), large_body |-> None,
     icon |-> None, attachments |-> <<>>, extra |-> {<<"key", "value">>},
     group_summary |-> TRUE, sound |-> Some("chime"), silent |-> FALSE]
SecondContent ==
    [title |-> None, body |-> Some("Text"), large_body |-> None,
     icon |-> Some("icon.png"), attachments |-> <<"a.png">>, extra |-> {},
     group_summary |-> FALSE, sound |-> None, silent |-> TRUE]

\* instants: 2024-06-15 14:30:45 UTC and 2025-12-25 10:00:00 UTC (the dates of
\* the conversion tests); the clock of the adapter model reads AdapterNow
Date2024 == WNanos(1718461845, 0)
Date2025 == WNanos(1766656800, 0)
AdapterNow == Date2024

ScheduleEvery(interval, count, allow_while_idle) ==
    [kind |-> "Every", interval |-> interval, count |-> count,
     allow_while_idle |-> allow_while_idle]

At2025 == ScheduleAt(Date2025, FALSE, FALSE)
EveryDay == ScheduleEvery("Day", 1, TRUE)

\* NotificationData
NotificationData(id, group, action_type_id, schedule, c) ==
    [id |-> id, title |-> c.title, body |-> c.body, schedule |-> schedule,
     large_body |-> c.large_body, action_type_id |-> action_type_id,
     group |-> group, group_summary |-> c.group_summary, sound |-> c.sound,
     icon |-> c.icon, attachments |-> c.attachments, extra |-> c.extra,
     silent |-> c.silent]

\* Action::new(id, title, foreground) and ActionType::new(id, actions)
Action(id, title, foreground) == [id |-> id, title |-> title, foreground |-> foreground]
ActionType(id, actions) == [id |-> id, actions |-> actions]

ConfirmType == ActionType("confirm", <<Action("yes", "Yes", FALSE), Action("no", "No", FALSE)>>)
ReplyType == ActionType("reply", <<Action("reply", "Reply", TRUE)>>)

(***************************************************************************)
(* HashMap<String, ActionType>: a function from the registered ids.        *)
(***************************************************************************)
EmptyMap == [k \in {} |-> None]
contains_key(m, k) == k \in DOMAIN m
insert(m, k, v) == [x \in DOMAIN m \cup {k} |-> IF x = k THEN v ELSE m[x]]

(***************************************************************************)
(* build_toast_xml: the toast document as the elements the code appends.   *)
(***************************************************************************)
OptSeq(o) == IF o = None THEN <<>> ELSE <<o[1]>>

action_element(action) ==
    [content |-> action.title, arguments |-> action.id,
     activationType |-> IF action.foreground THEN "foreground" ELSE "background"]

\* a mutated <actions> element: present, and empty, for an unregistered type
actions_element_empty(data, action_types) ==
    IF data.action_type_id = None THEN None
    ELSE IF contains_key(action_types, data.action_type_id[1])
    THEN Some([i \in DOMAIN action_types[data.action_type_id[1]].actions |->
                  action_element(action_types[data.action_type_id[1]].actions[i])])
    ELSE Some(<<>>)

\* the <actions> element: present when action_type_id names a registered type
actions_element(data, action_types) ==
    IF data.action_type_id # None /\ contains_key(action_types, data.action_type_id[1])
    THEN LET action_type == action_types[data.action_type_id[1]]
         IN  Some([i \in DOMAIN action_type.actions |->
                      action_element(action_type.actions[i])])
    ELSE None

build_toast_xml(data, action_types) ==
    [texts |-> OptSeq(data.title) \o OptSeq(data.body) \o OptSeq(data.large_body),
     images |-> (IF data.icon = None THEN <<>>
                 ELSE <<[placement |-> "appLogoOverride", src |-> data.icon[1]]>>)
                \o [i \in DOMAIN data.attachments |->
                       [placement |-> IF i = 1 THEN "hero" ELSE "", src |-> data.attachments[i]]],
     actions |-> actions_element(data, action_types),
     audio |-> IF data.silent THEN Some("silent")
               ELSE IF data.sound # None THEN Some(data.sound[1])
               ELSE None]


(***************************************************************************)
(* State.                                                                  *)
(***************************************************************************)
VARIABLES
    adapter,                \* the adapter the build selects (lib.rs cfg): "windows", "macos", "desktop"
    action_types,           \* WindowsPlugin.action_types
    click_listener_active,  \* WindowsPlugin.click_listener_active
    scheduled,              \* the notifier's scheduled toasts (GetScheduledToastNotifications)
    history,                \* the application's toast history (GetHistoryWithId)
    spawned,                \* desktop: the display tasks spawned on the async runtime
    last,                   \* the last call: operation, arguments, native calls, result, events triggered
    conv,                   \* the time conversion under test: input, native value, value converted back
    threads                 \* the calls under way on concurrent threads: position, lock held, snapshot

vars == <<adapter, action_types, click_listener_active, scheduled, history, spawned, last, conv,
          threads>>

\* no call is under way on another thread
NoThreads == <<>>

\* repeat: the call is the same operation with the same arguments as the call before
Call(op, args, native, result, events) ==
    [op |-> op, args |-> args, native |-> native, result |-> result, events |-> events,
     repeat |-> (last.op = op /\ last.args = args)]

\* the errors of the adapters
\* From<windows::core::Error>: PluginInvokeError::InvokeRejected with the code and message
InvokeRejected == [kind |-> "InvokeRejected", message |-> "windows::core::Error"]
Unit == "()"

\* crate::listeners::trigger(event, payload): the call, and whether delivery succeeded
Trigger(event, payload) == [event |-> event, payload |-> payload]
Delivered(events, flags) ==
    [i \in DOMAIN events |-> [event |-> events[i].event, payload |-> events[i].payload,
                              delivered |-> flags[i]]]

(***************************************************************************)
(* Windows: NotificationsBuilder::show.                                    *)
(***************************************************************************)
\* a mutated tag: the tag of every toast is the same text
show_tag_fixed(data) == <<"0">>

\* let tag = HSTRING::from(self.data.id.to_string())
show_tag(data) == i32_to_string(data.id)

\* the Group property of a toast: the text given to SetGroup, else empty
native_group(group) == IF group = None THEN "" ELSE group[1]

ScheduledToast(tag, group, content, delivery_time) ==
    [tag |-> tag, group |-> group, content |-> content, delivery_time |-> delivery_time]

\* a shown toast: shown is the data of the show() call that made it, None for a
\* toast the system made of a scheduled one; handler the notification its
\* Activated handler captured, None without a handler
Toast(tag, group, content, handler, shown) ==
    [tag |-> tag, group |-> group, content |-> content, handler |-> handler,
     shown |-> shown]

\* the ActiveNotification the Activated handler captures
handler_notification(data) ==
    [id |-> data.id, tag |-> Some(i32_to_string(data.id)), title |-> data.title,
     body |-> data.body, group |-> data.group, group_summary |-> data.group_summary,
     data |-> {}, extra |-> data.extra, attachments |-> data.attachments,
     action_type_id |-> data.action_type_id, schedule |-> data.schedule,
     sound |-> data.sound]

\* a mutated handler: "notificationClicked" for every activation
activated_events_always_clicked(notification, arguments) ==
    <<Trigger("actionPerformed",
              [actionId |-> IF arguments = "" THEN "tap" ELSE arguments,
               inputValue |-> None, notification |-> notification]),
      Trigger("notificationClicked", [id |-> notification.id, data |-> notification.extra])>>

\* the triggers of the Activated handler, in order
activated_events(notification, arguments) ==
    LET action_id == IF arguments = "" THEN "tap" ELSE arguments
    IN  <<Trigger("actionPerformed",
                  [actionId |-> action_id, inputValue |-> None,
                   notification |-> notification])>>
        \o (IF arguments = ""
            THEN <<Trigger("notificationClicked",
                           [id |-> notification.id, data |-> notification.extra])>>
            ELSE <<>>)

\* the "notification" event of show()
notification_event(data) ==
    Trigger("notification",
            [id |-> data.id, title |-> data.title, body |-> data.body,
             actionTypeId |-> data.action_type_id, extra |-> data.extra])

\* ToastNotifier::Show: a toast replaces the history entry of the same tag and group
native_show(hist, toast) ==
    KeepIdx(hist, {i \in DOMAIN hist :
                     ~(hist[i].tag = toast.tag /\ hist[i].group = toast.group)})
    \o <<toast>>

\* the native calls of show() that can fail, in order: the XML DOM calls, the
\* creation of the toast and its tag and group, the registration of the handler,
\* and Show or AddToSchedule
ShowFaults == {"none", "xml", "create", "handler", "native"}

\* the lock of the plugin state whose read finds it poisoned: action_types()
\* and is_click_listener_active() map the PoisonError to Error::Io
LockFaults == {"action_types_lock", "click_listener_lock"}
LockPoisoned == Io("Lock poisoned")

\* a mutated show(): the handler is attached whatever the click-listener flag
show_windows_handling(data, fault, now) ==
    LET types == action_types
        toast_xml == build_toast_xml(data, types)
        tag == show_tag(data)
        group == native_group(data.group)
        unchanged(res) == [result |-> res, scheduled |-> scheduled,
                           history |-> history, events |-> <<>>]
    IN  IF fault = "action_types_lock" THEN unchanged(Err(LockPoisoned))
        ELSE IF fault = "xml" THEN unchanged(Err(InvokeRejected))
        ELSE IF data.schedule # None
        THEN LET delivery_time == schedule_to_datetime(data.schedule[1], now)
             IN  IF ~delivery_time.ok THEN unchanged(delivery_time)
                 ELSE IF fault \in {"create", "native"} THEN unchanged(Err(InvokeRejected))
                 ELSE [result |-> Ok(Unit),
                       scheduled |-> Append(scheduled,
                           ScheduledToast(tag, group, toast_xml, delivery_time.val)),
                       history |-> history,
                       events |-> <<notification_event(data)>>]
        ELSE IF fault \in {"create", "handler", "native"} THEN unchanged(Err(InvokeRejected))
        ELSE IF fault = "click_listener_lock" THEN unchanged(Err(LockPoisoned))
        ELSE [result |-> Ok(Unit),
              scheduled |-> scheduled,
              history |-> native_show(history,
                             Toast(tag, group, toast_xml,
                                   Some(handler_notification(data)), Some(data))),
              events |-> <<notification_event(data)>>]

\* show(): the result, the stores afterwards and the events triggered
show_windows(data, fault, now) ==
    LET types == action_types
        toast_xml == build_toast_xml(data, types)
        tag == show_tag(data)
        group == native_group(data.group)
        unchanged(res) == [result |-> res, scheduled |-> scheduled,
                           history |-> history, events |-> <<>>]
    IN  IF fault = "action_types_lock" THEN unchanged(Err(LockPoisoned))
        ELSE IF fault = "xml" THEN unchanged(Err(InvokeRejected))
        ELSE IF data.schedule # None
        THEN LET delivery_time == schedule_to_datetime(data.schedule[1], now)
             IN  IF ~delivery_time.ok THEN unchanged(delivery_time)
                 ELSE IF fault \in {"create", "native"} THEN unchanged(Err(InvokeRejected))
                 ELSE [result |-> Ok(Unit),
                       scheduled |-> Append(scheduled,
                           ScheduledToast(tag, group, toast_xml, delivery_time.val)),
                       history |-> history,
                       events |-> <<notification_event(data)>>]
        ELSE IF fault = "create" THEN unchanged(Err(InvokeRejected))
        ELSE IF fault = "click_listener_lock" THEN unchanged(Err(LockPoisoned))
        ELSE LET handler == IF click_listener_active
                            THEN Some(handler_notification(data))
                            ELSE None
             IN  IF fault = "handler" /\ click_listener_active
                 THEN unchanged(Err(InvokeRejected))
                 ELSE IF fault = "native" THEN unchanged(Err(InvokeRejected))
                 ELSE [result |-> Ok(Unit),
                       scheduled |-> scheduled,
                       history |-> native_show(history,
                                      Toast(tag, group, toast_xml, handler, Some(data))),
                       events |-> <<notification_event(data)>>]

\* show(): deliveries are the outcomes a listener delivery can have
Show(data, fault, deliveries) ==
    /\ adapter = "windows"
    /\ LET r == show_windows(data, fault, AdapterNow)
       IN  /\ Len(r.scheduled) + Len(r.history) <= MaxToasts
           /\ scheduled' = r.scheduled
           /\ history' = r.history
           /\ \E flags \in [DOMAIN r.events -> deliveries] :
                 last' = Call("show", data, fault, r.result, Delivered(r.events, flags))
    /\ UNCHANGED <<adapter, action_types, click_listener_active, spawned, conv, threads>>


(***************************************************************************)
(* Windows: the registry, the click-listener flag, cancel and remove.      *)
(***************************************************************************)
RECURSIVE insert_all_absent(_, _)
\* a mutated loop: a type whose id is registered already is not replaced
insert_all_absent(m, types) ==
    IF types = <<>> THEN m
    ELSE insert_all_absent(IF contains_key(m, types[1].id) THEN m
                           ELSE insert(m, types[1].id, types[1]),
                           Tail(types))

RECURSIVE insert_all(_, _)
\* for action_type in types { action_types.insert(action_type.id().to_string(), action_type) }
insert_all(m, types) ==
    IF types = <<>> THEN m
    ELSE insert_all(insert(m, types[1].id, types[1]), Tail(types))

\* poisoned: action_types_mut() finds the lock poisoned
RegisterActionTypes(types, poisoned) ==
    /\ adapter = "windows"
    /\ action_types' = IF poisoned THEN action_types ELSE insert_all(action_types, types)
    /\ last' = Call("register_action_types", types, [poisoned |-> poisoned],
                    IF poisoned THEN Err(LockPoisoned) ELSE Ok(Unit), <<>>)
    /\ UNCHANGED <<adapter, click_listener_active, scheduled, history, spawned, conv, threads>>

\* a mutated set_click_listener(): the poisoned lock is written all the same
SetClickListenerActive_recovering(active, poisoned) ==
    /\ adapter = "windows"
    /\ click_listener_active' = active
    /\ last' = Call("set_click_listener_active", active, [poisoned |-> poisoned],
                    Ok(Unit), <<>>)
    /\ UNCHANGED <<adapter, action_types, scheduled, history, spawned, conv, threads>>

\* poisoned: set_click_listener() finds the lock poisoned
SetClickListenerActive(active, poisoned) ==
    /\ adapter = "windows"
    /\ click_listener_active' = IF poisoned THEN click_listener_active ELSE active
    /\ last' = Call("set_click_listener_active", active, [poisoned |-> poisoned],
                    IF poisoned THEN Err(LockPoisoned) ELSE Ok(Unit), <<>>)
    /\ UNCHANGED <<adapter, action_types, scheduled, history, spawned, conv, threads>>

\* a mutated selection: only the first scheduled toast carrying one of the ids
cancel_selected_first(sched, ids) ==
    LET all == {i \in DOMAIN sched :
                   LET id == parse_i32(sched[i].tag)
                   IN  id.ok /\ id.val \in Range(ids)}
    IN  IF all = {} THEN {} ELSE {CHOOSE i \in all : \A j \in all : i <= j}

\* the scheduled toasts cancel(ids) asks the notifier to remove: those whose tag
\* parses to one of the ids
cancel_selected(sched, ids) ==
    LET ids_to_cancel == Range(ids)
    IN  {i \in DOMAIN sched :
            LET id == parse_i32(sched[i].tag)
            IN  id.ok /\ id.val \in ids_to_cancel}

\* cancel(): enum_fault is a failure of GetScheduledToastNotifications or Size
\* (returned), failed the toasts whose GetAt, Tag or RemoveFromSchedule fails
\* (skipped, or logged)
cancel_windows(sched, ids, enum_fault, failed) ==
    IF enum_fault THEN [result |-> Err(InvokeRejected), scheduled |-> sched]
    ELSE [result |-> Ok(Unit),
          scheduled |-> KeepIdx(sched, DOMAIN sched \ (cancel_selected(sched, ids) \ failed))]

Cancel(ids, enum_fault, failed) ==
    /\ adapter = "windows"
    /\ failed \subseteq cancel_selected(scheduled, ids)
    /\ LET r == cancel_windows(scheduled, ids, enum_fault, failed)
       IN  /\ scheduled' = r.scheduled
           /\ last' = Call("cancel", ids,
                           [enum |-> enum_fault, failed |-> failed,
                            selected |-> IF enum_fault THEN {}
                                         ELSE cancel_selected(scheduled, ids)],
                           r.result, <<>>)
    /\ UNCHANGED <<adapter, action_types, click_listener_active, history, spawned, conv,
                   threads>>

cancel_all_windows(sched, enum_fault, failed) ==
    IF enum_fault THEN [result |-> Err(InvokeRejected), scheduled |-> sched]
    ELSE [result |-> Ok(Unit), scheduled |-> KeepIdx(sched, failed)]

CancelAll(enum_fault, failed) ==
    /\ adapter = "windows"
    /\ failed \subseteq DOMAIN scheduled
    /\ LET r == cancel_all_windows(scheduled, enum_fault, failed)
       IN  /\ scheduled' = r.scheduled
           /\ last' = Call("cancel_all", None, [enum |-> enum_fault, failed |-> failed],
                           r.result, <<>>)
    /\ UNCHANGED <<adapter, action_types, click_listener_active, history, spawned, conv,
                   threads>>

\* history.RemoveGroupedTagWithId(id.to_string(), HSTRING::new(), app_id): the
\* history entry with that tag and the empty group
remove_selected(hist, id) ==
    {i \in DOMAIN hist : hist[i].tag = i32_to_string(id) /\ hist[i].group = ""}

\* remove_active(): history_fault is a failure of ToastNotificationManager::History
\* (returned), failed the ids whose RemoveGroupedTagWithId fails (logged)
remove_active_windows(hist, ids, history_fault, failed) ==
    IF history_fault THEN [result |-> Err(InvokeRejected), history |-> hist]
    ELSE [result |-> Ok(Unit),
          history |-> KeepIdx(hist, DOMAIN hist \
                        UNION {remove_selected(hist, id) : id \in Range(ids) \ failed})]

RemoveActive(ids, history_fault, failed) ==
    /\ adapter = "windows"
    /\ failed \subseteq Range(ids)
    /\ LET r == remove_active_windows(history, ids, history_fault, failed)
       IN  /\ history' = r.history
           /\ last' = Call("remove_active", ids,
                           [enum |-> history_fault, failed |-> failed], r.result, <<>>)
    /\ UNCHANGED <<adapter, action_types, click_listener_active, scheduled, spawned, conv,
                   threads>>

\* remove_all_active(): History()? and ClearWithId()? both return their failure
RemoveAllActive(fault) ==
    /\ adapter = "windows"
    /\ history' = IF fault THEN history ELSE <<>>
    /\ last' = Call("remove_all_active", None, [enum |-> fault, failed |-> {}],
                    IF fault THEN Err(InvokeRejected) ELSE Ok(Unit), <<>>)
    /\ UNCHANGED <<adapter, action_types, click_listener_active, scheduled, spawned, conv,
                   threads>>


(***************************************************************************)
(* Windows: pending() and active().  A fault is one native read that       *)
(* fails: kind "enum" the enumeration itself, the other kinds a property   *)
(* of the toast at index at.                                               *)
(***************************************************************************)
NoFault == [kind |-> "none", at |-> 0]

Faults(call_faults, kinds, store) ==
    {NoFault}
    \cup (IF TRUE \in call_faults THEN {[kind |-> "enum", at |-> 0]} ELSE {})
    \cup {[kind |-> k, at |-> i] : k \in kinds, i \in DOMAIN store}

FaultAt(fault, kind, i) == fault.kind = kind /\ fault.at = i

\* text_elements.GetAt(n).ok().and_then(|el| el.InnerText().ok())
text_at(texts, n) == IF n + 1 <= Len(texts) THEN Some(texts[n + 1]) ELSE None

\* tag.parse::<i32>().unwrap_or(0)
tag_id(tag) == LET id == parse_i32(tag) IN IF id.ok THEN id.val ELSE 0

\* the Schedule::At of a scheduled toast's DeliveryTime
pending_schedule(delivery_time) ==
    LET windows_ticks == delivery_time
        unix_nanos == WMul(WSub(windows_ticks, WINDOWS_EPOCH_OFFSET_TICKS), 100)
        date == from_unix_timestamp_nanos(unix_nanos)
    IN  IF date.ok THEN Some(ScheduleAt(date.val, FALSE, FALSE)) ELSE None

PendingNotification(id, title, body, schedule) ==
    [id |-> id, title |-> title, body |-> body, schedule |-> schedule]

pending_windows(sched, fault) ==
    IF fault.kind = "enum" \/ fault.kind \in {"tag", "text"}
    THEN Err(InvokeRejected)
    ELSE LET schedule(i) == IF FaultAt(fault, "delivery", i) THEN None
                            ELSE pending_schedule(sched[i].delivery_time)
             entry(i) ==
                PendingNotification(
                    tag_id(sched[i].tag),
                    IF FaultAt(fault, "content", i) THEN None
                    ELSE text_at(sched[i].content.texts, 0),
                    IF FaultAt(fault, "content", i) THEN None
                    ELSE text_at(sched[i].content.texts, 1),
                    IF schedule(i) = None THEN None ELSE schedule(i)[1])
         IN  Ok(KeepIdx([i \in DOMAIN sched |-> entry(i)],
                        {i \in DOMAIN sched : schedule(i) # None}))

Pending(fault) ==
    /\ adapter = "windows"
    /\ last' = Call("pending", None, fault, pending_windows(scheduled, fault), <<>>)
    /\ UNCHANGED <<adapter, action_types, click_listener_active, scheduled, history,
                   spawned, conv, threads>>

ActiveNotification(id, tag, title, body, group) ==
    [id |-> id, tag |-> tag, title |-> title, body |-> body, group |-> group,
     group_summary |-> FALSE, data |-> {}, extra |-> {}, attachments |-> <<>>,
     action_type_id |-> None, schedule |-> None, sound |-> None]

\* a mutated active(): the extra, sound and action type of the show() call are
\* reported for the toasts that show() made
active_windows_remembering(hist, fault) ==
    IF fault.kind = "enum" \/ fault.kind \in {"tag", "text"}
    THEN Err(InvokeRejected)
    ELSE LET entry(i) ==
                LET a == ActiveNotification(
                            tag_id(hist[i].tag), Some(hist[i].tag),
                            text_at(hist[i].content.texts, 0),
                            text_at(hist[i].content.texts, 1), Some(hist[i].group))
                IN  IF hist[i].shown = None THEN a
                    ELSE [a EXCEPT !.extra = hist[i].shown[1].extra,
                                   !.sound = hist[i].shown[1].sound,
                                   !.action_type_id = hist[i].shown[1].action_type_id]
         IN  Ok([i \in DOMAIN hist |-> entry(i)])

active_windows(hist, fault) ==
    IF fault.kind = "enum" \/ fault.kind \in {"tag", "text"}
    THEN Err(InvokeRejected)
    ELSE LET entry(i) ==
                ActiveNotification(
                    tag_id(hist[i].tag),
                    Some(hist[i].tag),
                    IF FaultAt(fault, "content", i) THEN None
                    ELSE text_at(hist[i].content.texts, 0),
                    IF FaultAt(fault, "content", i) THEN None
                    ELSE text_at(hist[i].content.texts, 1),
                    IF FaultAt(fault, "group", i) THEN None ELSE Some(hist[i].group))
         IN  Ok([i \in DOMAIN hist |-> entry(i)])

Active(fault) ==
    /\ adapter = "windows"
    /\ last' = Call("active", None, fault, active_windows(history, fault), <<>>)
    /\ UNCHANGED <<adapter, action_types, click_listener_active, scheduled, history,
                   spawned, conv, threads>>

(***************************************************************************)
(* Windows: what the system does with the toasts.                          *)
(***************************************************************************)
\* a scheduled toast comes due: it leaves the schedule and is shown
Deliver(i) ==
    /\ adapter = "windows"
    /\ i \in DOMAIN scheduled
    /\ scheduled' = KeepIdx(scheduled, DOMAIN scheduled \ {i})
    /\ history' = native_show(history,
                      Toast(scheduled[i].tag, scheduled[i].group, scheduled[i].content,
                            None, None))
    /\ last' = Call("deliver", scheduled[i].tag, None, Ok(Unit), <<>>)
    /\ UNCHANGED <<adapter, action_types, click_listener_active, spawned, conv, threads>>

\* the arguments the handler reads from the ToastActivatedEventArgs the system
\* passes: empty for a click on the body (and when Arguments() fails:
\* unwrap_or_default), else the arguments attribute of one of the toast's actions
ActivationArguments(toast) ==
    {""} \cup (IF toast.content.actions = None THEN {}
               ELSE {a.arguments : a \in Range(toast.content.actions[1])})

\* the user activates a shown toast: its Activated handler runs, if it has one;
\* the system keeps the toast in the history or removes it
Activate(i, arguments, removed, deliveries) ==
    /\ adapter = "windows"
    /\ i \in DOMAIN history
    /\ arguments \in ActivationArguments(history[i])
    /\ LET toast == history[i]
           events == IF toast.handler = None THEN <<>>
                     ELSE activated_events(toast.handler[1], arguments)
       IN  \E flags \in [DOMAIN events -> deliveries] :
              last' = Call("activate", [toast |-> toast, arguments |-> arguments], None,
                           Ok(Unit), Delivered(events, flags))
    /\ history' = IF removed THEN KeepIdx(history, DOMAIN history \ {i}) ELSE history
    /\ UNCHANGED <<adapter, action_types, click_listener_active, scheduled, spawned, conv,
                   threads>>


(***************************************************************************)
(* Channels: no adapter of the three supports them.                        *)
(***************************************************************************)
Channels == {"alerts", "news"}

\* a mutated create_channel: the desktop adapter accepts the channel
create_channel_accepting(a, channel) ==
    IF a = "desktop" THEN Ok(Unit)
    ELSE Err(Io("Notification channels are not supported"))

create_channel(a, channel) ==
    CASE a = "windows" -> Err(Io("Notification channels are not supported on Windows"))
      [] a = "macos" -> Err(Io("Notification channels are not supported on macOS"))
      [] a = "desktop" -> Err(Io("Notification channels are not supported with notify-rust"))

delete_channel(a, id) ==
    CASE a = "windows" -> Err(Io("Notification channels are not supported on Windows"))
      [] a = "macos" -> Err(Io("Notification channels are not supported on macOS"))
      [] a = "desktop" -> Err(Io("Notification channels are not supported with notify-rust"))

list_channels(a) ==
    CASE a = "windows" -> Err(Io("Notification channels are not supported on Windows"))
      [] a = "macos" -> Err(Io("Notification channels are not supported on macOS"))
      [] a = "desktop" -> Err(Io("Notification channels are not supported with notify-rust"))

CreateChannel(channel) ==
    /\ last' = Call("create_channel", channel, None, create_channel(adapter, channel), <<>>)
    /\ UNCHANGED <<adapter, action_types, click_listener_active, scheduled, history,
                   spawned, conv, threads>>

DeleteChannel(id) ==
    /\ last' = Call("delete_channel", id, None, delete_channel(adapter, id), <<>>)
    /\ UNCHANGED <<adapter, action_types, click_listener_active, scheduled, history,
                   spawned, conv, threads>>

ListChannels ==
    /\ last' = Call("list_channels", None, None, list_channels(adapter), <<>>)
    /\ UNCHANGED <<adapter, action_types, click_listener_active, scheduled, history,
                   spawned, conv, threads>>

(***************************************************************************)
(* macOS: show() passes the serialized data to the Swift plugin and        *)
(* normalizes its answer.  The adapter exists only in a bundled            *)
(* application: init() returns the error of require_bundle() otherwise.    *)
(***************************************************************************)
\* tauri::plugin::PermissionState as serde reads it
PermissionStates == {"granted", "denied", "prompt", "prompt-with-rationale"}

\* a JSON text is the sequence of its tokens; the members of an object whose
\* tokens between the braces are given: a sequence of [key, value], or a
\* syntax error
RECURSIVE object_members(_)
object_members(tokens) ==
    IF Len(tokens) < 3 \/ tokens[2] # ":" \/ tokens[1] \in {"{", "}", "[", "]", ":", ","}
          \/ tokens[3] \in {"{", "}", "[", "]", ":", ","}
    THEN Err("syntax")
    ELSE IF Len(tokens) = 3 THEN Ok(<<[key |-> tokens[1], value |-> tokens[3]]>>)
    ELSE IF tokens[4] # "," THEN Err("syntax")
    ELSE LET rest == object_members(SubSeq(tokens, 5, Len(tokens)))
         IN  IF rest.ok
             THEN Ok(<<[key |-> tokens[1], value |-> tokens[3]]>> \o rest.val)
             ELSE rest

\* serde_json::from_str::<PermissionResponse>(&json): an object with one
\* member permissionState naming a PermissionState; other members are skipped
from_str_PermissionResponse(json) ==
    IF Len(json) < 2 \/ json[1] # "{" \/ json[Len(json)] # "}" THEN Err("syntax")
    ELSE LET members == IF Len(json) = 2 THEN Ok(<<>>)
                        ELSE object_members(SubSeq(json, 2, Len(json) - 1))
         IN  IF ~members.ok THEN members
             ELSE LET found == {i \in DOMAIN members.val :
                                   members.val[i].key = "permissionState"}
                  IN  IF found = {} THEN Err("missing field")
                      ELSE IF Cardinality(found) > 1 THEN Err("duplicate field")
                      ELSE LET value == members.val[CHOOSE i \in found : TRUE].value
                           IN  IF value \in PermissionStates
                               THEN Ok([permission_state |-> value])
                               ELSE Err("unknown variant")

\* PluginInvokeError::InvokeRejected(ErrorResponse { code: None, message: Some(msg), data: () })
FFIRejected(msg) == [kind |-> "InvokeRejected", code |-> None, message |-> Some(msg)]

\* a mutated parse: a response that does not decode is reported as rejected
parse_rejecting(response) ==
    IF response.ok
    THEN LET value == from_str_PermissionResponse(response.val)
         IN  IF value.ok THEN Ok(value.val) ELSE Err(FFIRejected(value.err))
    ELSE Err(FFIRejected(response.err))

\* Result<String, FFIResult>::parse::<PermissionResponse>
parse(response) ==
    IF response.ok
    THEN LET value == from_str_PermissionResponse(response.val)
         IN  IF value.ok THEN Ok(value.val)
             ELSE Err([kind |-> "CannotDeserializeResponse", message |-> value.err])
    ELSE Err(FFIRejected(response.err))

\* Result<(), FFIResult>::parse_void and Result<i32, FFIResult>::parse_void
parse_void(response) ==
    IF response.ok THEN Ok(Unit)
    ELSE Err(FFIRejected(response.err))

\* the answers of the Swift plugin's show
SwiftShowAnswers == {Ok(0), Err("show failed")}

\* the Swift plugin's show: on success it reports the notification to the
\* listener router through bridgeTrigger
swift_show_events(data, answer) ==
    IF answer.ok THEN <<notification_event(data)>> ELSE <<>>

show_macos(data, answer) == parse_void(answer)

MacShow(data, answer, deliveries) ==
    /\ adapter = "macos"
    /\ LET events == swift_show_events(data, answer)
       IN  \E flags \in [DOMAIN events -> deliveries] :
              last' = Call("show", data, None, show_macos(data, answer),
                           Delivered(events, flags))
    /\ UNCHANGED <<adapter, action_types, click_listener_active, scheduled, history,
                   spawned, conv, threads>>

\* bridge_trigger(event, payload), called by the Swift plugin: the failure of
\* crate::listeners::trigger is returned as FFIResult::Err with the message
\* format!("Failed to trigger event '{event}': {e}")
bridge_trigger(event, payload, delivered) ==
    IF delivered THEN Ok(Unit)
    ELSE Err(<<"Failed to trigger event '", event, "': ", "listener error">>)

BridgeTrigger(event, payload, delivered) ==
    /\ adapter = "macos"
    /\ last' = Call("bridge_trigger", [event |-> event, payload |-> payload], None,
                    bridge_trigger(event, payload, delivered),
                    Delivered(<<Trigger(event, payload)>>, <<delivered>>))
    /\ UNCHANGED <<adapter, action_types, click_listener_active, scheduled, history,
                   spawned, conv, threads>>

(***************************************************************************)
(* notify-rust desktop: show() builds the notification and spawns a task   *)
(* that displays it.                                                       *)
(***************************************************************************)
\* self.app.config().product_name
ProductName == Some("App")

\* the imp::Notification show() builds: title (else the product name), body, icon
desktop_notification(data) ==
    [title |-> IF data.title # None THEN data.title ELSE ProductName,
     body |-> data.body, icon |-> data.icon]

\* show(): exe_fault is a failure of current_exe() (Windows builds), returned;
\* otherwise the display task is spawned and show() returns Ok
show_desktop(data, exe_fault, tasks) ==
    IF exe_fault
    THEN [result |-> Err(Io("current_exe")), spawned |-> tasks]
    ELSE [result |-> Ok(Unit), spawned |-> Append(tasks, desktop_notification(data))]

DesktopShow(data, exe_fault) ==
    /\ adapter = "desktop"
    /\ LET r == show_desktop(data, exe_fault, spawned)
       IN  /\ Len(r.spawned) <= MaxToasts
           /\ spawned' = r.spawned
           /\ last' = Call("show", data, None, r.result, <<>>)
    /\ UNCHANGED <<adapter, action_types, click_listener_active, scheduled, history, conv,
                   threads>>

\* the spawned task runs: let _ = notification.show()
DesktopDisplay(displayed) ==
    /\ adapter = "desktop"
    /\ spawned # <<>>
    /\ spawned' = Tail(spawned)
    /\ last' = Call("display", Head(spawned), None,
                    IF displayed THEN Ok(Unit) ELSE Err(Io("notify-rust")), <<>>)
    /\ UNCHANGED <<adapter, action_types, click_listener_active, scheduled, history, conv,
                   threads>>

(***************************************************************************)
(* The adapter specifications.  The build selects one adapter (lib.rs);    *)
(* a scope names the inputs the calls are given and the native failures    *)
(* that are let happen.                                                    *)
(***************************************************************************)
Adapters == {"windows", "macos", "desktop"}

NoConv == [stage |-> "unused"]

\* no call yet
NoCall == [op |-> "init", args |-> None, native |-> None, result |-> Ok(Unit),
           events |-> <<>>, repeat |-> FALSE]

InitAdapter(a) ==
    /\ adapter = a
    /\ action_types = EmptyMap
    /\ click_listener_active = FALSE
    /\ scheduled = <<>>
    /\ history = <<>>
    /\ spawned = <<>>
    /\ last = NoCall
    /\ threads = NoThreads
    /\ conv = NoConv

Init == \E a \in Adapters : InitAdapter(a)

DataSet(ids, groups, action_type_ids, schedules, contents) ==
    {NotificationData(id, g, a, sch, c) :
        id \in ids, g \in groups, a \in action_type_ids, sch \in schedules,
        c \in contents}

\* the subsets of the store's indices that fail, when single calls are let fail
Failing(item_faults, indices) == IF item_faults THEN SUBSET indices ELSE {{}}

WindowsNext(sc) ==
    \/ \E data \in sc.datas, fault \in sc.show_faults : Show(data, fault, sc.deliveries)
    \/ \E types \in sc.type_lists, poisoned \in sc.poisoned :
          RegisterActionTypes(types, poisoned)
    \/ \E active \in sc.listener, poisoned \in sc.poisoned :
          SetClickListenerActive(active, poisoned)
    \/ \E ids \in sc.cancel_lists, enum_fault \in sc.call_faults,
          failed \in Failing(sc.cancel_item_faults, DOMAIN scheduled) :
          Cancel(ids, enum_fault, failed)
    \/ \E enum_fault \in sc.call_faults,
          failed \in Failing(sc.cancel_item_faults, DOMAIN scheduled) :
          CancelAll(enum_fault, failed)
    \/ \E ids \in sc.remove_lists, history_fault \in sc.call_faults :
          \E failed \in Failing(sc.remove_item_faults, Range(ids)) :
             RemoveActive(ids, history_fault, failed)
    \/ \E fault \in sc.call_faults : RemoveAllActive(fault)
    \/ \E fault \in Faults(sc.call_faults, sc.read_faults, scheduled) : Pending(fault)
    \/ \E fault \in Faults(sc.call_faults, sc.read_faults, history) : Active(fault)
    \/ \E i \in DOMAIN scheduled : Deliver(i)
    \/ \E i \in DOMAIN history :
          \E arguments \in ActivationArguments(history[i]), removed \in sc.removals :
             Activate(i, arguments, removed, sc.deliveries)

ChannelNext ==
    \/ \E channel \in Channels : CreateChannel(channel)
    \/ \E id \in Channels : DeleteChannel(id)
    \/ ListChannels

MacNext(sc) ==
    \/ \E data \in sc.datas, answer \in SwiftShowAnswers :
          MacShow(data, answer, sc.deliveries)
    \/ \E event \in {"notification", "actionPerformed"}, delivered \in sc.deliveries :
          BridgeTrigger(event, "{}", delivered)

DesktopNext(sc) ==
    \/ \E data \in sc.datas, exe_fault \in sc.call_faults : DesktopShow(data, exe_fault)
    \/ \E displayed \in BOOLEAN : DesktopDisplay(displayed)

\* every adapter: one notification id, shown at once or scheduled, with either
\* content, every failure of show()
BaseScope ==
    [datas |-> DataSet({1}, {None}, {None}, {None, Some(At2025)},
                       {FirstContent, SecondContent}),
     show_faults |-> ShowFaults,
     type_lists |-> {<<>>},
     listener |-> BOOLEAN,
     cancel_lists |-> {OneId},
     remove_lists |-> {OneId},
     call_faults |-> BOOLEAN,
     cancel_item_faults |-> FALSE,
     remove_item_faults |-> FALSE,
     read_faults |-> {},
     deliveries |-> BOOLEAN,
     removals |-> {TRUE},
     poisoned |-> {FALSE}]

Next ==
    \/ WindowsNext(BaseScope)
    \/ MacNext(BaseScope)
    \/ DesktopNext(BaseScope)
    \/ ChannelNext

Spec == Init /\ [][Next]_vars

\* C3 as stated: a show() that returned Ok has triggered a "notification"
\* event with the id, title, body, actionTypeId and extra of its data, on
\* every adapter.
C3_AsStated ==
    (last.op = "show" /\ last.result.ok)
        => \E i \in DOMAIN last.events :
              /\ last.events[i].event = "notification"
              /\ last.events[i].payload =
                    [id |-> last.args.id, title |-> last.args.title,
                     body |-> last.args.body,
                     actionTypeId |-> last.args.action_type_id,
                     extra |-> last.args.extra]

\* C7 as stated: a show() with a schedule that returns Ok adds one entry to
\* the scheduled store and leaves the history as it was on Windows, and starts
\* no display on the notify-rust desktop adapter.
C7_AsStated ==
    [][(last'.op = "show" /\ last'.args.schedule # None /\ last'.result.ok)
         => /\ (adapter = "windows") =>
                  (Len(scheduled') = Len(scheduled) + 1 /\ history' = history)
            /\ (adapter = "desktop") => (spawned' = spawned)]_vars

ChannelOps == {"create_channel", "delete_channel", "list_channels"}

\* C9: create_channel, delete_channel and list_channels return Error::Io on
\* every adapter, for every argument and in every state, and leave the
\* registry, the click-listener flag, the scheduled store, the history and the
\* display tasks as they were.
C9_Unsupported ==
    [][(last'.op \in ChannelOps)
         => /\ ~last'.result.ok
            /\ last'.result.err.kind = "Io"
            /\ UNCHANGED <<adapter, action_types, click_listener_active, scheduled,
                           history, spawned, threads>>]_vars

\* create_channel has returned its error on the desktop adapter while a
\* display task was waiting
C9_Witness ==
    /\ adapter = "desktop"
    /\ last.op = "create_channel"
    /\ ~last.result.ok
    /\ spawned # <<>>

\* scheduling and cancelling on Windows: ungrouped notifications of every
\* schedule kind, every native failure of cancel()
ScheduleScope ==
    [datas |-> DataSet(Ids, {None}, {None}, {None, Some(At2025)}, {FirstContent}),
     show_faults |-> {"none", "native"},
     type_lists |-> {<<>>},
     listener |-> {FALSE},
     cancel_lists |-> {OneId, NoSuchId, AllIds},
     remove_lists |-> {OneId},
     call_faults |-> BOOLEAN,
     cancel_item_faults |-> TRUE,
     remove_item_faults |-> FALSE,
     read_faults |-> {},
     deliveries |-> {TRUE},
     removals |-> {TRUE},
     poisoned |-> {FALSE}]

NextSchedule == WindowsNext(ScheduleScope)
SpecSchedule == InitAdapter("windows") /\ [][NextSchedule]_vars

Stores == <<scheduled, history, action_types, click_listener_active>>

\* the ids pending() reports when no native read fails
PendingIds == {p.id : p \in Range(pending_windows(scheduled, NoFault).val)}

ActiveScope ==
    [datas |-> DataSet({1}, {None, Some("g")}, {Some("confirm")}, {None}, {FirstContent})
               \cup DataSet(Ids \ {1}, {None}, {None}, {Some(At2025)}, {FirstContent}),
     show_faults |-> {"none", "handler"},
     type_lists |-> {<<ConfirmType>>},
     listener |-> BOOLEAN,
     cancel_lists |-> {AllIds},
     remove_lists |-> {OneId, AllIds},
     call_faults |-> {FALSE},
     cancel_item_faults |-> FALSE,
     remove_item_faults |-> FALSE,
     read_faults |-> {},
     deliveries |-> {TRUE},
     removals |-> BOOLEAN,
     poisoned |-> {FALSE}]

NextActive == WindowsNext(ActiveScope)
SpecActive == InitAdapter("windows") /\ [][NextActive]_vars

\* the events of the last call with the given name
EventsNamed(name) == {i \in DOMAIN last.events : last.events[i].event = name}

\* C4 as stated: with the click listener enabled, the activation with the
\* arguments "yes" of a toast that show() displayed triggers "actionPerformed"
\* with the actionId "yes", also when the listener was enabled after the show().
C4_AsStated ==
    (/\ last.op = "activate"
     /\ last.args.arguments = "yes"
     /\ last.args.toast.shown # None
     /\ click_listener_active)
        => \E i \in EventsNamed("actionPerformed") : last.events[i].payload.actionId = "yes"

\* C5 as stated: while the click-listener flag is false, the activation of a
\* toast that show() displayed triggers no event.
C5_AsStated ==
    (last.op = "activate" /\ last.args.toast.shown # None /\ ~click_listener_active)
        => EventsNamed("actionPerformed") \cup EventsNamed("notificationClicked") = {}

ShownActiveIds ==
    LET shown == KeepIdx(history, {i \in DOMAIN history : history[i].shown # None})
    IN  {a.id : a \in Range(active_windows(shown, NoFault).val)}

\* C8 as stated: after a remove_active(ids) whose native calls all succeeded,
\* active() reports no notification that show() displayed with one of the ids,
\* whatever its group.
C8_AsStated ==
    (last.op = "remove_active" /\ last.result.ok /\ last.native.failed = {})
        => Range(last.args) \cap ShownActiveIds = {}

(***************************************************************************)
(* The time conversions (src/src/windows.rs), applied to instants drawn    *)
(* around whole seconds: an instant is converted to a Windows DateTime,    *)
(* directly or as the date of a Schedule::At, and converted back.          *)
(***************************************************************************)
\* the instants are up to MaxConvNanos nanoseconds after a whole second
MaxConvNanos == 120

\* 1970-01-01, one second before it, 2000-01-01, and the dates of the tests
ConvSeconds == {0, -1, 946684800, 1718461845, 1766656800}

ConvDates ==
    {WNanos(secs, nanos) : secs \in ConvSeconds, nanos \in 0..MaxConvNanos}
    \cup {DateMin, DateMax}

\* the readings of the clock
ConvNows == {Date2024, Date2025}

InitTime ==
    /\ adapter = "windows"
    /\ action_types = EmptyMap
    /\ click_listener_active = FALSE
    /\ scheduled = <<>>
    /\ history = <<>>
    /\ spawned = <<>>
    /\ last = NoCall
    /\ threads = NoThreads
    /\ \E date \in ConvDates, now \in ConvNows :
          conv = [stage |-> "input", date |-> date, now |-> now]

\* unix_to_windows_datetime(date)
ConvertDirect ==
    /\ conv.stage = "input"
    /\ conv' = [stage |-> "native", date |-> conv.date, now |-> conv.now, via |-> "direct",
                native |-> unix_to_windows_datetime(conv.date)]
    /\ UNCHANGED <<adapter, action_types, click_listener_active, scheduled, history,
                   spawned, last, threads>>

\* schedule_to_datetime(&Schedule::At { date, .. }) when the clock reads now
ConvertSchedule ==
    /\ conv.stage = "input"
    /\ conv' = [stage |-> "native", date |-> conv.date, now |-> conv.now, via |-> "schedule",
                native |-> schedule_to_datetime(ScheduleAt(conv.date, FALSE, FALSE), conv.now)]
    /\ UNCHANGED <<adapter, action_types, click_listener_active, scheduled, history,
                   spawned, last, threads>>

\* windows_datetime_to_unix(native)
ConvertBack ==
    /\ conv.stage = "native"
    /\ conv.native.ok
    /\ conv' = [stage |-> "back", date |-> conv.date, now |-> conv.now, via |-> conv.via,
                native |-> conv.native, back |-> windows_datetime_to_unix(conv.native.val)]
    /\ UNCHANGED <<adapter, action_types, click_listener_active, scheduled, history,
                   spawned, last, threads>>

NextTime == ConvertDirect \/ ConvertSchedule \/ ConvertBack

SpecTime == InitTime /\ [][NextTime]_vars

\* C10: an instant that converts to a Windows DateTime without error and is
\* converted back differs from the result by less than 100 ns, and is equal to
\* it exactly when the instant is a whole number of 100 ns ticks; this holds
\* for unix_to_windows_datetime and for schedule_to_datetime of a Schedule::At
\* with that date, whose result is the same for every reading of the clock.
C10_RoundTrip ==
    /\ (conv.stage = "native" /\ conv.via = "schedule") =>
          \A now \in ConvNows :
             schedule_to_datetime(ScheduleAt(conv.date, FALSE, FALSE), now) = conv.native
    /\ (conv.stage = "back" /\ conv.back.ok) =>
          /\ WLt(WAbs(WSub(conv.back.val, conv.date)), WFromInt(100))
          /\ (conv.back.val = conv.date) <=> (WRemTrunc(conv.date, 100) = 0)

\* an instant off the 100 ns grid went through schedule_to_datetime and back
C10_Witness ==
    /\ conv.stage = "back"
    /\ conv.via = "schedule"
    /\ conv.back.ok
    /\ WRemTrunc(conv.date, 100) # 0
    /\ conv.back.val # conv.date

\* 134774 days in 100 ns ticks: 134774 * 86400 * 10^7
EpochOffsetDays == 134774
DaysInTicks(days) ==
    WMul(WMul(WMul(WMul(WMul(WFromInt(days), 864), 100), 1000), 1000), 10)

\* C11: the offset the conversion uses is 134774 days in 100 ns ticks;
\* unix_to_windows_datetime maps the instant n ns after the Unix epoch to
\* n / 100 plus that offset, and the Unix epoch itself to the offset.
C11_EpochOffset ==
    /\ WINDOWS_EPOCH_OFFSET_TICKS = DaysInTicks(EpochOffsetDays)
    /\ (conv.stage = "native" /\ conv.via = "direct") =>
          /\ conv.native.ok
          /\ conv.native.val = WAdd(WDivTrunc(conv.date, 100), DaysInTicks(EpochOffsetDays))
          /\ (conv.date = WZero) => (conv.native.val = DaysInTicks(EpochOffsetDays))

\* the Unix epoch was converted by unix_to_windows_datetime
C11_Witness ==
    /\ conv.stage = "native"
    /\ conv.via = "direct"
    /\ conv.date = WZero
    /\ conv.native.ok

(***************************************************************************)
(* schedule_to_datetime of the relative schedules (src/src/windows.rs):    *)
(* the clock is read, a Schedule::Every or a Schedule::Interval is         *)
(* converted to a Windows DateTime, and the DateTime is converted back.    *)
(***************************************************************************)
\* 2024-06-15 14:30:45 UTC, the same instant 50 ns later, 2025-12-25
OffsetNows == {Date2024, WNanos(1718461845, 50), Date2025}

\* 9999-12-31 00:00:00 UTC, the last day of time::OffsetDateTime
LateClock == WFromGroups(<<253, 402, 214, 400, 0, 0, 0>>, WZero)
OverflowNows == {Date2024, LateClock}

\* ScheduleEvery
EveryUnits == {"Year", "Month", "TwoWeeks", "Week", "Day", "Hour", "Minute", "Second"}

\* count: u8
EveryCounts == {0, 1, 2, 255}

\* Option<u8> fields of ScheduleInterval
IntervalFields == {None, Some(1), Some(255)}
IgnoredFields == {None, Some(7)}

ScheduleInterval(year, month, day, weekday, hour, minute, second) ==
    [year |-> year, month |-> month, day |-> day, weekday |-> weekday,
     hour |-> hour, minute |-> minute, second |-> second]

Schedule_Interval(interval, allow_while_idle) ==
    [kind |-> "Interval", interval |-> interval, allow_while_idle |-> allow_while_idle]

InitClock(nows) ==
    /\ adapter = "windows"
    /\ action_types = EmptyMap
    /\ click_listener_active = FALSE
    /\ scheduled = <<>>
    /\ history = <<>>
    /\ spawned = <<>>
    /\ last = NoCall
    /\ threads = NoThreads
    /\ \E now \in nows : conv = [stage |-> "clock", now |-> now]

\* schedule_to_datetime(&schedule) when the clock reads conv.now
Converted(via, schedule) ==
    [stage |-> "native", via |-> via, schedule |-> schedule, now |-> conv.now,
     native |-> schedule_to_datetime(schedule, conv.now)]

ConvertEvery ==
    /\ conv.stage = "clock"
    /\ \E interval \in EveryUnits, count \in EveryCounts :
          conv' = Converted("every", ScheduleEvery(interval, count, FALSE))
    /\ UNCHANGED <<adapter, action_types, click_listener_active, scheduled, history,
                   spawned, last, threads>>

ConvertInterval ==
    /\ conv.stage = "clock"
    /\ \E second \in IntervalFields, minute \in IntervalFields, hour \in IntervalFields,
          day \in IntervalFields, year \in IgnoredFields, month \in IgnoredFields,
          weekday \in IgnoredFields :
          conv' = Converted("interval",
              Schedule_Interval(ScheduleInterval(year, month, day, weekday, hour, minute,
                                                 second), FALSE))
    /\ UNCHANGED <<adapter, action_types, click_listener_active, scheduled, history,
                   spawned, last, threads>>

\* windows_datetime_to_unix(native)
ConvertDeliveryBack ==
    /\ conv.stage = "native"
    /\ conv.native.ok
    /\ conv' = [stage |-> "back", via |-> conv.via, schedule |-> conv.schedule,
                now |-> conv.now, native |-> conv.native,
                back |-> windows_datetime_to_unix(conv.native.val)]
    /\ UNCHANGED <<adapter, action_types, click_listener_active, scheduled, history,
                   spawned, last, threads>>

NextOffset == ConvertEvery \/ ConvertInterval \/ ConvertDeliveryBack

SpecOffset == InitClock(OffsetNows) /\ [][NextOffset]_vars

SpecOverflow == InitClock(OverflowNows) /\ [][NextOffset]_vars

\* the instant secs seconds after now, and its count of 100 ns ticks since 1601
SecondsAfter(now, secs) == WAdd(now, WMul(WMul(WMul(secs, 1000), 1000), 1000))
TicksOf(instant) == WAdd(WDivTrunc(instant, 100), WINDOWS_EPOCH_OFFSET_TICKS)

\* the seconds of one unit of a Schedule::Every
UnitSeconds(interval) ==
    CASE interval = "Year" -> 365 * 86400
      [] interval = "Month" -> 30 * 86400
      [] interval = "TwoWeeks" -> 14 * 86400
      [] interval = "Week" -> 7 * 86400
      [] interval = "Day" -> 86400
      [] interval = "Hour" -> 3600
      [] interval = "Minute" -> 60
      [] interval = "Second" -> 1

\* C12: for every Schedule::Every the conversion yields the instant
\* count times the unit's seconds after the reading of the clock; the result
\* for Every { Day, 1 }, converted back, is within 2 s of now + 86400 s.
C12_EveryOffset ==
    /\ (conv.stage = "native" /\ conv.via = "every") =>
          /\ conv.native.ok
          /\ conv.native.val =
                TicksOf(SecondsAfter(conv.now,
                    WMul(WFromInt(UnitSeconds(conv.schedule.interval)), conv.schedule.count)))
    /\ (conv.stage = "back" /\ conv.via = "every"
          /\ conv.schedule.interval = "Day" /\ conv.schedule.count = 1) =>
          /\ conv.back.ok
          /\ WLt(WAbs(WSub(conv.back.val, SecondsAfter(conv.now, WFromInt(86400)))),
                 WNanos(2, 0))

\* Every { Year, 255 } was converted and converted back
C12_Witness ==
    /\ conv.stage = "back"
    /\ conv.via = "every"
    /\ conv.schedule.interval = "Year"
    /\ conv.schedule.count = 255
    /\ conv.back.ok
    /\ conv.back.val # conv.now

\* the interval with year, month and weekday absent
WithoutCalendar(interval) ==
    ScheduleInterval(None, None, interval.day, None, interval.hour, interval.minute,
                     interval.second)

\* the value of an Option<u8> field, an absent field counting as 0
FieldOr0(field) == IF Len(field) = 0 THEN 0 ELSE Head(field)

\* C13: for every Schedule::Interval the conversion yields the instant
\* second + minute * 60 + hour * 3600 + day * 86400 seconds after the reading
\* of the clock, absent fields counting as 0; year, month and weekday do not
\* change the result.
C13_IntervalOffset ==
    (conv.stage = "native" /\ conv.via = "interval") =>
       LET interval == conv.schedule.interval
       IN  /\ conv.native.ok
           /\ conv.native.val =
                 TicksOf(SecondsAfter(conv.now,
                     WFromInt(FieldOr0(interval.second) + FieldOr0(interval.minute) * 60
                              + FieldOr0(interval.hour) * 3600
                              + FieldOr0(interval.day) * 86400)))
           /\ conv.native =
                 schedule_to_datetime(Schedule_Interval(WithoutCalendar(interval), FALSE),
                                      conv.now)

\* an interval with year, month and weekday set and some component absent was
\* converted
C13_Witness ==
    /\ conv.stage = "native"
    /\ conv.via = "interval"
    /\ conv.native.ok
    /\ conv.schedule.interval.year # None
    /\ conv.schedule.interval.month # None
    /\ conv.schedule.interval.weekday # None
    /\ conv.schedule.interval.second = None
    /\ conv.schedule.interval.day = Some(255)

\* a count of ticks that DateTime.UniversalTime can hold
InTickRange(ticks) == WLe(I64Min, ticks) /\ WLe(ticks, I64Max)

\* the seconds a relative schedule adds to the reading of the clock
OffsetSeconds(schedule) ==
    IF schedule.kind = "Every"
    THEN WMul(WFromInt(UnitSeconds(schedule.interval)), schedule.count)
    ELSE WFromInt(FieldOr0(schedule.interval.second) + FieldOr0(schedule.interval.minute) * 60
                  + FieldOr0(schedule.interval.hour) * 3600
                  + FieldOr0(schedule.interval.day) * 86400)

\* C14: a conversion never panics; when the delivery instant, the addition
\* now + offset included, has no count of ticks that the native DateTime can
\* hold the call returns an error, and a value it returns is the count of ticks
\* of the delivery instant, neither truncated nor wrapped.
C14_AsStated ==
    (conv.stage = "native") =>
       LET ticks == TicksOf(SecondsAfter(conv.now, OffsetSeconds(conv.schedule)))
       IN  /\ conv.native.ok => conv.native.val = ticks
           /\ ~conv.native.ok => conv.native.err.kind # "panic"
           /\ ~InTickRange(ticks) => ~conv.native.ok

\* C15: every Schedule::Every that is accepted and converted has a count of
\* at least 1, and its delivery instant is strictly later than the reading of
\* the clock.
C15_AsStated ==
    (conv.stage = "native" /\ conv.via = "every") =>
       /\ conv.schedule.count >= 1
       /\ conv.native.ok => WLt(TicksOf(conv.now), conv.native.val)

(***************************************************************************)
(* The Windows adapter with action types: notifications that name the      *)
(* action type "confirm" or none, shown at once or scheduled, while        *)
(* "confirm" and "reply" are registered.                                   *)
(***************************************************************************)
RegistryScope ==
    [datas |-> DataSet({1}, {None}, {None, Some("confirm")}, {None, Some(At2025)},
                       {FirstContent}),
     show_faults |-> {"none", "native"},
     type_lists |-> {<<ConfirmType>>, <<ReplyType>>},
     listener |-> {FALSE},
     cancel_lists |-> {OneId},
     remove_lists |-> {OneId},
     call_faults |-> {FALSE},
     cancel_item_faults |-> FALSE,
     remove_item_faults |-> FALSE,
     read_faults |-> {},
     deliveries |-> {TRUE},
     removals |-> {TRUE},
     poisoned |-> {FALSE}]

NextRegistry == WindowsNext(RegistryScope)

SpecRegistry == InitAdapter("windows") /\ [][NextRegistry]_vars

\* the toast the last show() made: the last scheduled toast or history entry
ShownToast ==
    IF last.args.schedule # None THEN scheduled[Len(scheduled)] ELSE history[Len(history)]

\* C16: a show() whose actionTypeId is not registered returns Ok when its
\* native calls succeed, the notification is shown or scheduled and its toast
\* has no actions element; when the type is registered the toast has one
\* action per Action of the type, in order, whose arguments are the action id.
C16_ActionsElement ==
    (last.op = "show" /\ last.args.action_type_id # None) =>
       LET id == last.args.action_type_id[1]
       IN  /\ last.native = "none" => last.result.ok
           /\ last.result.ok =>
                 /\ Len(IF last.args.schedule # None THEN scheduled ELSE history) > 0
                 /\ ShownToast.tag = i32_to_string(last.args.id)
                 /\ IF contains_key(action_types, id)
                    THEN /\ ShownToast.content.actions # None
                         /\ LET elements == ShownToast.content.actions[1]
                                actions == action_types[id].actions
                            IN  /\ Len(elements) = Len(actions)
                                /\ \A i \in DOMAIN actions :
                                      elements[i].arguments = actions[i].id
                    ELSE ShownToast.content.actions = None

\* a notification naming "confirm" was shown while only "reply" was registered
C16_Witness ==
    /\ last.op = "show"
    /\ last.result.ok
    /\ last.args.action_type_id = Some("confirm")
    /\ contains_key(action_types, "reply")
    /\ ~contains_key(action_types, "confirm")
    /\ last.args.schedule = None
    /\ Len(history) > 0
    /\ ShownToast.content.actions = None

(***************************************************************************)
(* The Windows adapter with locks that may be poisoned: one notification,  *)
(* shown at once or scheduled, the registration of "confirm" and the       *)
(* click-listener flag.                                                    *)
(***************************************************************************)
LockScope ==
    [datas |-> DataSet({1}, {None}, {None, Some("confirm")}, {None, Some(At2025)},
                       {FirstContent}),
     show_faults |-> {"none"} \cup LockFaults,
     type_lists |-> {<<ConfirmType>>},
     listener |-> BOOLEAN,
     cancel_lists |-> {OneId},
     remove_lists |-> {OneId},
     call_faults |-> {FALSE},
     cancel_item_faults |-> FALSE,
     remove_item_faults |-> FALSE,
     read_faults |-> {},
     deliveries |-> {TRUE},
     removals |-> {TRUE},
     poisoned |-> BOOLEAN]

NextLocks == WindowsNext(LockScope)

SpecLocks == InitAdapter("windows") /\ [][NextLocks]_vars

\* the call of this step found a lock poisoned when it read or wrote it: show()
\* reads the registry first and, for a notification without schedule, the flag
\* after the toast is created
LockFailed ==
    \/ last'.op = "show" /\ last'.native = "action_types_lock"
    \/ last'.op = "show" /\ last'.native = "click_listener_lock"
          /\ last'.args.schedule = None
    \/ last'.op \in {"register_action_types", "set_click_listener_active"}
          /\ last'.native.poisoned

\* C17: a show(), register_action_types() or set_click_listener_active() that
\* finds the lock it reads or writes poisoned returns Error::Io, shows and
\* schedules nothing, triggers no event and leaves the registry and the flag
\* as they were.
C17_PoisonedLock ==
    [][LockFailed =>
          /\ last'.result = Err(Io("Lock poisoned"))
          /\ last'.events = <<>>
          /\ UNCHANGED <<scheduled, history, action_types, click_listener_active>>]_vars

\* show() of a notification naming a registered type failed at the poisoned
\* click-listener lock while the flag was set
C17_Witness ==
    /\ last.op = "show"
    /\ last.native = "click_listener_lock"
    /\ last.args.schedule = None
    /\ last.args.action_type_id = Some("confirm")
    /\ contains_key(action_types, "confirm")
    /\ click_listener_active
    /\ ~last.result.ok
    /\ history = <<>>

\* C18 as stated: an operation one of whose native removals failed (a
\* scheduled toast in cancel or cancel_all, a history entry in remove_active)
\* returns Err.
C18_AsStated ==
    (last.op \in {"cancel", "cancel_all", "remove_active"} /\ last.native.failed # {})
        => ~last.result.ok

(***************************************************************************)
(* The Windows adapter with reads that fail: pending() and active() over   *)
(* toasts one of whose properties (tag, group, content, delivery time)     *)
(* cannot be read.                                                         *)
(***************************************************************************)
ReadScope ==
    [datas |-> DataSet({1}, {Some("g")}, {Some("confirm")}, {None},
                       {FirstContent, SecondContent})
               \cup DataSet({2}, {None}, {None}, {Some(At2025)}, {FirstContent}),
     show_faults |-> {"none"},
     type_lists |-> {<<ConfirmType>>},
     listener |-> {FALSE},
     cancel_lists |-> {OneId},
     remove_lists |-> {OneId},
     call_faults |-> {FALSE},
     cancel_item_faults |-> FALSE,
     remove_item_faults |-> FALSE,
     read_faults |-> {"tag", "group", "content", "delivery"},
     deliveries |-> {TRUE},
     removals |-> {TRUE},
     poisoned |-> {FALSE}]

NextReads == WindowsNext(ReadScope)

SpecReads == InitAdapter("windows") /\ [][NextReads]_vars

\* C19 as stated: pending() and active() return Ok with one projection for
\* every native entry, whichever property of an entry could not be read.
C19_AsStated ==
    /\ last.op = "pending" => (last.result.ok /\ Len(last.result.val) = Len(scheduled))
    /\ last.op = "active" => (last.result.ok /\ Len(last.result.val) = Len(history))

\* C20: every projection active() returns has empty extra, data and
\* attachments, group_summary false and no action_type_id, schedule or sound;
\* its tag and id are those of the history entry at its place, its title and
\* body the first and second text of the entry's content, its group the
\* entry's group, or absent where the content or the group could not be read.
C20_ActiveProjection ==
    (last.op = "active" /\ last.result.ok) =>
       /\ Len(last.result.val) = Len(history)
       /\ \A i \in DOMAIN history :
             LET a == last.result.val[i]
                 texts == history[i].content.texts
                 unread(kind) == last.native.kind = kind /\ last.native.at = i
             IN  /\ a.extra = {} /\ a.data = {} /\ a.attachments = <<>>
                 /\ a.group_summary = FALSE
                 /\ a.action_type_id = None /\ a.schedule = None /\ a.sound = None
                 /\ a.tag = Some(history[i].tag)
                 /\ i32_to_string(a.id) = history[i].tag
                 /\ a.title = IF unread("content") \/ Len(texts) < 1 THEN None
                              ELSE Some(texts[1])
                 /\ a.body = IF unread("content") \/ Len(texts) < 2 THEN None
                             ELSE Some(texts[2])
                 /\ a.group = IF unread("group") THEN None ELSE Some(history[i].group)

\* active() reported a toast that was shown with extra, a sound, an action
\* type and the group-summary flag
C20_Witness ==
    /\ last.op = "active"
    /\ last.result.ok
    /\ \E i \in DOMAIN history :
          /\ history[i].shown # None
          /\ history[i].shown[1].extra # {}
          /\ history[i].shown[1].sound # None
          /\ history[i].shown[1].action_type_id # None
          /\ history[i].shown[1].group_summary
          /\ last.result.val[i].extra = {}

(***************************************************************************)
(* The normalization of the Swift plugin's answers (src/src/macos.rs): an  *)
(* answer of one of the three FFI result types is drawn and parsed.        *)
(***************************************************************************)
\* the i32 answers of the Swift plugin's show are -1 .. MaxAnswer
MaxAnswer == 30

PermissionJson(state) == <<"{", "permissionState", ":", state, "}">>

\* JSON texts: the four permission responses, an unknown state, a missing and
\* a misspelt member, members before and after, a member given twice, texts
\* that are not an object or not JSON
Jsons ==
    {PermissionJson(state) : state \in PermissionStates \cup {"maybe"}}
    \cup {<<"{", k, ":", "granted", "}">> : k \in {"permission_state", "deviceToken"}}
    \cup {<<"{", "code", ":", v, ",", "permissionState", ":", "denied", "}">> :
             v \in {"1", "granted"}}
    \cup {<<"{", "permissionState", ":", "prompt", ",", k, ":", "x", "}">> :
             k \in {"extra", "permissionState"}}
    \cup {<<>>, <<"{", "}">>, <<"[", "]">>, <<"{", "permissionState", ":", "granted">>,
          <<"{", "permissionState", "granted", "}">>,
          <<"{", "permissionState", ":", "granted", ",", "}">>, <<"granted">>}

FFIMessages == {"", "show failed", "not authorized"}

\* Result<String, FFIResult>, Result<(), FFIResult> and Result<i32, FFIResult>
FFIResponses(type) ==
    {Err(msg) : msg \in FFIMessages}
    \cup (CASE type = "String" -> {Ok(json) : json \in Jsons}
           [] type = "()" -> {Ok(Unit)}
           [] type = "i32" -> {Ok(n) : n \in -1..MaxAnswer})

InitParse ==
    /\ adapter = "macos"
    /\ action_types = EmptyMap
    /\ click_listener_active = FALSE
    /\ scheduled = <<>>
    /\ history = <<>>
    /\ spawned = <<>>
    /\ last = NoCall
    /\ threads = NoThreads
    /\ \E type \in {"String", "()", "i32"} :
          \E response \in FFIResponses(type) :
             conv = [stage |-> "response", type |-> type, response |-> response]

\* response.parse::<PermissionResponse>()
Parse ==
    /\ conv.stage = "response"
    /\ conv.type = "String"
    /\ conv' = [stage |-> "parsed", type |-> conv.type, response |-> conv.response,
                result |-> parse(conv.response)]
    /\ UNCHANGED <<adapter, action_types, click_listener_active, scheduled, history,
                   spawned, last, threads>>

\* response.parse_void()
ParseVoid ==
    /\ conv.stage = "response"
    /\ conv.type \in {"()", "i32"}
    /\ conv' = [stage |-> "parsed", type |-> conv.type, response |-> conv.response,
                result |-> parse_void(conv.response)]
    /\ UNCHANGED <<adapter, action_types, click_listener_active, scheduled, history,
                   spawned, last, threads>>

NextParse == Parse \/ ParseVoid

SpecParse == InitParse /\ [][NextParse]_vars

\* the JSON texts that are a PermissionResponse: an object in which
\* permissionState occurs once, with a PermissionState as its value
DecodesTo(json, state) ==
    \/ json = PermissionJson(state)
    \/ \E v \in {"1", "granted"} :
          json = <<"{", "code", ":", v, ",", "permissionState", ":", state, "}">>
    \/ json = <<"{", "permissionState", ":", state, ",", "extra", ":", "x", "}">>

\* C21: parse() of Ok(json) returns the decoded value when json decodes to the
\* target type and Err(CannotDeserializeResponse) otherwise; parse() and
\* parse_void() of Err(msg) return InvokeRejected with no code and the message
\* msg; parse_void() of any Ok value returns Ok(()).  No failure becomes Ok and
\* no success becomes InvokeRejected.
C21_Normalization ==
    (conv.stage = "parsed") =>
       /\ ~conv.response.ok =>
             conv.result = Err([kind |-> "InvokeRejected", code |-> None,
                                message |-> Some(conv.response.err)])
       /\ (conv.response.ok /\ conv.type \in {"()", "i32"}) => conv.result = Ok(Unit)
       /\ (conv.response.ok /\ conv.type = "String") =>
             IF \E state \in PermissionStates : DecodesTo(conv.response.val, state)
             THEN \E state \in PermissionStates :
                     /\ DecodesTo(conv.response.val, state)
                     /\ conv.result = Ok([permission_state |-> state])
             ELSE /\ ~conv.result.ok
                  /\ conv.result.err.kind = "CannotDeserializeResponse"
       /\ conv.response.ok => (conv.result.ok \/ conv.result.err.kind # "InvokeRejected")

\* a response that is JSON but names no PermissionState was parsed
C21_Witness ==
    /\ conv.stage = "parsed"
    /\ conv.type = "String"
    /\ conv.response = Ok(PermissionJson("maybe"))
    /\ ~conv.result.ok
    /\ conv.result.err.kind = "CannotDeserializeResponse"

(***************************************************************************)
(* Permissions: permission_state() and request_permission() of the         *)
(* Windows and the notify-rust desktop adapter.                            *)
(***************************************************************************)
\* NotificationSetting: the five named values and a value without a name
NotificationSettings ==
    {"Enabled", "DisabledForApplication", "DisabledForUser", "DisabledByGroupPolicy",
     "DisabledByManifest", "NotificationSetting(5)"}

\* the answers of notifier.Setting()
SettingAnswers == {Ok(setting) : setting \in NotificationSettings} \cup {Err(InvokeRejected)}

\* a mutated permission_state(): a setting without a name counts as granted
permission_state_lenient(a, setting) ==
    IF a = "desktop" THEN Ok("granted")
    ELSE IF ~setting.ok THEN setting
    ELSE IF setting.val \in {"DisabledForApplication", "DisabledForUser",
                             "DisabledByGroupPolicy", "DisabledByManifest"}
    THEN Ok("denied")
    ELSE Ok("granted")

\* permission_state(): Windows maps the answer of notifier.Setting(), the
\* desktop adapter answers Granted
permission_state(a, setting) ==
    IF a = "desktop" THEN Ok("granted")
    ELSE IF ~setting.ok THEN setting
    ELSE CASE setting.val = "Enabled" -> Ok("granted")
           [] setting.val \in {"DisabledForApplication", "DisabledForUser",
                               "DisabledByGroupPolicy", "DisabledByManifest"} -> Ok("denied")
           [] OTHER -> Ok("prompt")

\* request_permission(): Windows returns self.permission_state().await, the
\* desktop adapter answers Granted
request_permission(a, setting) ==
    IF a = "desktop" THEN Ok("granted") ELSE permission_state(a, setting)

CheckPermissionState(setting) ==
    /\ adapter \in {"windows", "desktop"}
    /\ last' = Call("permission_state", None, setting, permission_state(adapter, setting),
                    <<>>)
    /\ UNCHANGED <<adapter, action_types, click_listener_active, scheduled, history,
                   spawned, conv, threads>>

RequestPermission(setting) ==
    /\ adapter \in {"windows", "desktop"}
    /\ last' = Call("request_permission", None, setting,
                    request_permission(adapter, setting), <<>>)
    /\ UNCHANGED <<adapter, action_types, click_listener_active, scheduled, history,
                   spawned, conv, threads>>

PermissionNext ==
    \/ \E setting \in SettingAnswers : CheckPermissionState(setting)
    \/ \E setting \in SettingAnswers : RequestPermission(setting)

\* one notification, shown at once or scheduled, the registry and the flag
PermissionScope ==
    [datas |-> DataSet({1}, {None}, {None}, {None, Some(At2025)}, {FirstContent}),
     show_faults |-> {"none"},
     type_lists |-> {<<ConfirmType>>},
     listener |-> {TRUE},
     cancel_lists |-> {OneId},
     remove_lists |-> {OneId},
     call_faults |-> {FALSE},
     cancel_item_faults |-> FALSE,
     remove_item_faults |-> FALSE,
     read_faults |-> {},
     deliveries |-> {TRUE},
     removals |-> {TRUE},
     poisoned |-> {FALSE}]

NextPermission ==
    \/ WindowsNext(PermissionScope)
    \/ DesktopNext(PermissionScope)
    \/ PermissionNext

SpecPermission ==
    (InitAdapter("windows") \/ InitAdapter("desktop")) /\ [][NextPermission]_vars

\* C22: request_permission() and permission_state() change no store, registry
\* or flag; on the desktop adapter both return Ok(Granted); on Windows both
\* return, for the setting the notifier answers, Granted for Enabled, Denied
\* for each Disabled* setting and Prompt for any other setting.
C22_Permission ==
    [][(last'.op \in {"request_permission", "permission_state"}) =>
          /\ UNCHANGED <<adapter, action_types, click_listener_active, scheduled,
                         history, spawned>>
          /\ adapter = "desktop" => last'.result = Ok("granted")
          /\ (adapter = "windows" /\ last'.native.ok) =>
                last'.result =
                   Ok(IF last'.native.val = "Enabled" THEN "granted"
                      ELSE IF last'.native.val \in
                                 {"DisabledForApplication", "DisabledForUser",
                                  "DisabledByGroupPolicy", "DisabledByManifest"}
                      THEN "denied"
                      ELSE "prompt")]_vars

\* request_permission() on Windows answered Prompt for a setting without a
\* name while a toast was in the history
C22_Witness ==
    /\ adapter = "windows"
    /\ last.op = "request_permission"
    /\ last.native = Ok("NotificationSetting(5)")
    /\ last.result = Ok("prompt")
    /\ history # <<>>

(***************************************************************************)
(* NotificationData::default() (src/src/models.rs): the id is the value    *)
(* rand::random::<i32>() returns.                                          *)
(***************************************************************************)
\* the values drawn for rand::random(): -MaxRandom .. MaxRandom and the
\* least and greatest i32
MaxRandom == 30
RandomValues == (-MaxRandom..MaxRandom) \cup {-2147483647 - 1, 2147483647}

\* fn default_id() -> i32 { rand::random() }
default_id(random) == random

\* the fields NotificationData::default() sets besides the id
DefaultContent ==
    [title |-> None, body |-> None, large_body |-> None, icon |-> None,
     attachments |-> <<>>, extra |-> {}, group_summary |-> FALSE, sound |-> None,
     silent |-> FALSE]

NotificationData_default(random) ==
    NotificationData(default_id(random), None, None, None, DefaultContent)

InitDefault ==
    /\ adapter = "windows"
    /\ action_types = EmptyMap
    /\ click_listener_active = FALSE
    /\ scheduled = <<>>
    /\ history = <<>>
    /\ spawned = <<>>
    /\ last = NoCall
    /\ threads = NoThreads
    /\ \E random \in RandomValues : conv = [stage |-> "random", random |-> random]

\* NotificationData::default()
Default ==
    /\ conv.stage = "random"
    /\ conv' = [stage |-> "default", random |-> conv.random,
                data |-> NotificationData_default(conv.random)]
    /\ UNCHANGED <<adapter, action_types, click_listener_active, scheduled, history,
                   spawned, last, threads>>

NextDefault == Default

SpecDefault == InitDefault /\ [][NextDefault]_vars

\* C23 as stated: the id of the record NotificationData::default() makes is
\* different from 0, whatever value the random generator returned.
C23_AsStated == (conv.stage = "default") => conv.data.id # 0

\* an event of the last call that the listeners did not take
Undelivered(name) ==
    \E i \in DOMAIN last.events :
       last.events[i].event = name /\ ~last.events[i].delivered

\* C24 as stated: a failed delivery to the listeners is not an error of the
\* caller: the Windows show() whose "notification" event fails returns Ok, the
\* activation handler whose "actionPerformed" fails returns Ok and still
\* triggers "notificationClicked" for a click on the body, and on macOS
\* bridge_trigger returns no error to the native callback.
C24_AsStated ==
    /\ (adapter = "windows" /\ last.op = "show" /\ Undelivered("notification"))
          => last.result.ok
    /\ (last.op = "activate" /\ Undelivered("actionPerformed")) =>
          /\ last.result.ok
          /\ last.args.arguments = "" =>
                \E i \in DOMAIN last.events : last.events[i].event = "notificationClicked"
    /\ (last.op = "bridge_trigger" /\ \E i \in DOMAIN last.events :
                                         ~last.events[i].delivered)
          => last.result.ok

(***************************************************************************)
(* Concurrent calls on Windows: show() and register_action_types() run on  *)
(* several threads and meet at the RwLock of the action-type registry.     *)
(* A thread's record holds its position in the call, the lock it holds and *)
(* the registry snapshot show() cloned.                                    *)
(***************************************************************************)
\* the threads are 1 .. MaxThreads; each makes at most MaxCalls calls
MaxThreads == 2
MaxCalls == 2

ThreadIds == 1..MaxThreads

Idle(calls) ==
    [op |-> "none", pc |-> "idle", holds |-> "none", arg |-> None, snapshot |-> None,
     calls |-> calls]

\* the notification the threads show and the list they register
ThreadData == NotificationData(1, None, Some("confirm"), None, FirstContent)
ThreadTypes == {<<ReplyType, ConfirmType>>}

\* RwLock: the threads holding the read lock, the threads holding the write lock
Readers == {t \in DOMAIN threads : threads[t].holds = "read"}
Writers == {t \in DOMAIN threads : threads[t].holds = "write"}

InitThreads ==
    /\ adapter = "windows"
    /\ action_types = EmptyMap
    /\ click_listener_active = FALSE
    /\ scheduled = <<>>
    /\ history = <<>>
    /\ spawned = <<>>
    /\ last = NoCall
    /\ conv = NoConv
    /\ threads = [t \in ThreadIds |-> Idle(0)]

\* a thread enters show(): its first statement is self.plugin.action_types()?
StartShow(t, data) ==
    /\ threads[t].pc = "idle"
    /\ threads[t].calls < MaxCalls
    /\ threads' = [threads EXCEPT ![t] =
                      [op |-> "show", pc |-> "read", holds |-> "none", arg |-> data,
                       snapshot |-> None, calls |-> @.calls + 1]]
    /\ UNCHANGED <<adapter, action_types, click_listener_active, scheduled, history,
                   spawned, last, conv>>

\* a thread enters register_action_types(types): its first statement is
\* self.plugin.action_types_mut()?
StartRegister(t, types) ==
    /\ threads[t].pc = "idle"
    /\ threads[t].calls < MaxCalls
    /\ threads' = [threads EXCEPT ![t] =
                      [op |-> "register_action_types", pc |-> "write", holds |-> "none",
                       arg |-> types, snapshot |-> None, calls |-> @.calls + 1]]
    /\ UNCHANGED <<adapter, action_types, click_listener_active, scheduled, history,
                   spawned, last, conv>>

\* action_types(): self.action_types.read() returns once no writer holds the lock
AcquireRead(t) ==
    /\ threads[t].pc = "read"
    /\ Writers = {}
    /\ threads' = [threads EXCEPT ![t].pc = "clone", ![t].holds = "read"]
    /\ UNCHANGED <<adapter, action_types, click_listener_active, scheduled, history,
                   spawned, last, conv>>

\* a mutated action_types(): the read guard is kept after the clone
cloned_holding(thread, registry) ==
    [thread EXCEPT !.pc = "native", !.snapshot = Some(registry)]

\* action_types(): .clone() under the read guard, which is dropped at the end
\* of the statement
cloned(thread, registry) ==
    [thread EXCEPT !.pc = "native", !.holds = "none", !.snapshot = Some(registry)]

CloneRegistry(t) ==
    /\ threads[t].pc = "clone"
    /\ threads' = [threads EXCEPT ![t] = cloned(@, action_types)]
    /\ UNCHANGED <<adapter, action_types, click_listener_active, scheduled, history,
                   spawned, last, conv>>

\* show(): build_toast_xml(&action_types) from the snapshot, then the toast is
\* created and notifier.Show(&toast) called
ThreadNativeShow(t) ==
    /\ threads[t].pc = "native"
    /\ LET data == threads[t].arg
           toast_xml == build_toast_xml(data, threads[t].snapshot[1])
       IN  history' = native_show(history,
                          Toast(show_tag(data), native_group(data.group), toast_xml,
                                None, Some(data)))
    /\ threads' = [threads EXCEPT ![t].pc = "trigger"]
    /\ UNCHANGED <<adapter, action_types, click_listener_active, scheduled, spawned, last,
                   conv>>

\* show(): crate::listeners::trigger("notification", ..), then Ok(())
ThreadTrigger(t) ==
    /\ threads[t].pc = "trigger"
    /\ threads' = [threads EXCEPT ![t] = Idle(@.calls)]
    /\ UNCHANGED <<adapter, action_types, click_listener_active, scheduled, history,
                   spawned, last, conv>>

\* action_types_mut(): self.action_types.write() returns once no thread holds
\* the lock
AcquireWrite(t) ==
    /\ threads[t].pc = "write"
    /\ Readers = {} /\ Writers = {}
    /\ threads' = [threads EXCEPT ![t].pc = "insert", ![t].holds = "write"]
    /\ UNCHANGED <<adapter, action_types, click_listener_active, scheduled, history,
                   spawned, last, conv>>

\* one turn of the loop: action_types.insert(action_type.id().to_string(), action_type)
InsertType(t) ==
    /\ threads[t].pc = "insert"
    /\ threads[t].arg # <<>>
    /\ action_types' = insert(action_types, Head(threads[t].arg).id, Head(threads[t].arg))
    /\ threads' = [threads EXCEPT ![t].arg = Tail(@)]
    /\ UNCHANGED <<adapter, click_listener_active, scheduled, history, spawned, last, conv>>

\* Ok(()): the write guard is dropped when register_action_types returns
ReleaseWrite(t) ==
    /\ threads[t].pc = "insert"
    /\ threads[t].arg = <<>>
    /\ threads' = [threads EXCEPT ![t] = Idle(@.calls)]
    /\ UNCHANGED <<adapter, action_types, click_listener_active, scheduled, history,
                   spawned, last, conv>>

\* the steps of a call under way on thread t
ThreadStep(t) ==
    \/ AcquireRead(t)
    \/ CloneRegistry(t)
    \/ ThreadNativeShow(t)
    \/ ThreadTrigger(t)
    \/ AcquireWrite(t)
    \/ InsertType(t)
    \/ ReleaseWrite(t)

NextThreads ==
    \/ \E t \in ThreadIds : StartShow(t, ThreadData)
    \/ \E t \in ThreadIds, types \in ThreadTypes : StartRegister(t, types)
    \/ \E t \in ThreadIds : ThreadStep(t)

\* fair scheduling: a thread whose next step stays possible takes it
SpecThreads ==
    /\ InitThreads
    /\ [][NextThreads]_vars
    /\ \A t \in ThreadIds : WF_vars(ThreadStep(t))

\* the lock is held only while the registry is cloned or the types inserted
LockHeldBriefly ==
    \A t \in ThreadIds :
       /\ threads[t].holds = "read" => (threads[t].op = "show" /\ threads[t].pc = "clone")
       /\ threads[t].holds = "write" =>
             (threads[t].op = "register_action_types" /\ threads[t].pc = "insert")
       /\ threads[t].pc \in {"native", "trigger"} => threads[t].holds = "none"

ConfirmAgain == ActionType("confirm", <<Action("ok", "OK", TRUE)>>)

UpsertScope ==
    [datas |-> DataSet({1}, {None}, {Some("confirm")}, {None, Some(At2025)},
                       {FirstContent}),
     show_faults |-> {"none"},
     type_lists |-> {<<>>, <<ReplyType>>, <<ConfirmAgain>>, <<ConfirmType, ConfirmAgain>>,
                     <<ConfirmAgain, ReplyType, ConfirmType>>},
     listener |-> {TRUE},
     cancel_lists |-> {OneId},
     remove_lists |-> {OneId},
     call_faults |-> {FALSE},
     cancel_item_faults |-> FALSE,
     remove_item_faults |-> FALSE,
     read_faults |-> {},
     deliveries |-> {TRUE},
     removals |-> {TRUE},
     poisoned |-> BOOLEAN]

NextUpsert == WindowsNext(UpsertScope)

SpecUpsert == InitAdapter("windows") /\ [][NextUpsert]_vars

\* the place of the last type with the id in the list
LastWith(types, id) ==
    CHOOSE i \in DOMAIN types :
       types[i].id = id /\ \A j \in DOMAIN types : types[j].id = id => j <= i

\* C26: after register_action_types(types) the registry maps every id of the
\* list to the last type of the list with that id and every other id to the
\* type it had; no step of the adapter removes an id from the registry.
C26_Upsert ==
    [][/\ DOMAIN action_types \subseteq DOMAIN action_types'
       /\ (last'.op = "register_action_types" /\ last'.result.ok) =>
             LET types == last'.args
                 ids == {types[i].id : i \in DOMAIN types}
             IN  /\ DOMAIN action_types' = DOMAIN action_types \cup ids
                 /\ \A id \in ids : action_types'[id] = types[LastWith(types, id)]
                 /\ \A id \in DOMAIN action_types \ ids :
                       action_types'[id] = action_types[id]]_vars

\* "confirm" was registered a second time with other actions, in a list that
\* names it twice, while "reply" stayed as it was
C26_Witness ==
    /\ last.op = "register_action_types"
    /\ last.args = <<ConfirmType, ConfirmAgain>>
    /\ last.result.ok
    /\ contains_key(action_types, "reply")
    /\ action_types["confirm"] = ConfirmAgain
    /\ last.repeat

\* C27 as stated: cancel and cancel_all leave the history, remove_active and
\* remove_all_active the scheduled store as it was; none of the four changes
\* the registry or the flag or triggers an event; after a cancel_all that
\* returned Ok pending() is empty, after a remove_all_active that returned Ok
\* active() is empty.
C27_AsStated ==
    [][/\ (last'.op \in {"cancel", "cancel_all"}) => UNCHANGED history
       /\ (last'.op \in {"remove_active", "remove_all_active"}) => UNCHANGED scheduled
       /\ (last'.op \in {"cancel", "cancel_all", "remove_active", "remove_all_active"}) =>
             /\ UNCHANGED <<action_types, click_listener_active>>
             /\ last'.events = <<>>
       /\ (last'.op = "cancel_all" /\ last'.result.ok) =>
             pending_windows(scheduled', NoFault) = Ok(<<>>)
       /\ (last'.op = "remove_all_active" /\ last'.result.ok) =>
             active_windows(history', NoFault) = Ok(<<>>)]_vars

(***************************************************************************)
(* show() on Windows statement by statement: the call under way holds its  *)
(* position, the registry snapshot, the toast it built, the events it has  *)
(* triggered and the statements it has completed.                          *)
(***************************************************************************)
NotInShow ==
    [pc |-> "idle", data |-> None, snapshot |-> None, toast |-> None, events |-> <<>>,
     steps |-> <<>>]

\* the notifications of the stepwise slice: shown at once or scheduled
StepDatas ==
    DataSet({1}, {None}, {None}, {None, Some(At2025)}, {FirstContent})
    \cup DataSet({2}, {None}, {None}, {Some(At2025)}, {SecondContent})

InitSteps ==
    /\ adapter = "windows"
    /\ action_types = EmptyMap
    /\ click_listener_active = FALSE
    /\ scheduled = <<>>
    /\ history = <<>>
    /\ spawned = <<>>
    /\ last = NoCall
    /\ conv = NoConv
    /\ threads = <<NotInShow>>

\* show() returns: the ? operator or the final Ok(())
Returned(result) ==
    /\ last' = Call("show", threads[1].data[1], threads[1].steps, result, threads[1].events)
    /\ threads' = <<NotInShow>>

\* the call goes on to the statement at pc, the statement named step done
Proceed(pc, step) ==
    [threads[1] EXCEPT !.pc = pc, !.steps = Append(@, step)]

BeginShow(data) ==
    /\ threads[1].pc = "idle"
    /\ Len(scheduled) + Len(history) < MaxToasts
    /\ threads' = <<[NotInShow EXCEPT !.pc = "action_types", !.data = Some(data)]>>
    /\ UNCHANGED <<adapter, action_types, click_listener_active, scheduled, history,
                   spawned, last, conv>>

\* let action_types = self.plugin.action_types()?
ReadActionTypes(poisoned) ==
    /\ threads[1].pc = "action_types"
    /\ IF poisoned
       THEN Returned(Err(LockPoisoned))
       ELSE /\ threads' = <<[Proceed("build_toast_xml", "action_types")
                               EXCEPT !.snapshot = Some(action_types)]>>
            /\ UNCHANGED last
    /\ UNCHANGED <<adapter, action_types, click_listener_active, scheduled, history,
                   spawned, conv>>

\* let toast_xml = self.build_toast_xml(&action_types)?, then tag and group
BuildToastXml(failed) ==
    /\ threads[1].pc = "build_toast_xml"
    /\ IF failed
       THEN Returned(Err(InvokeRejected))
       ELSE /\ threads' =
                  <<[Proceed(IF threads[1].data[1].schedule # None THEN "scheduled"
                             ELSE "immediate", "build_toast_xml")
                       EXCEPT !.toast = Some(build_toast_xml(threads[1].data[1],
                                                             threads[1].snapshot[1]))]>>
            /\ UNCHANGED last
    /\ UNCHANGED <<adapter, action_types, click_listener_active, scheduled, history,
                   spawned, conv>>

\* schedule_to_datetime(schedule)?, CreateScheduledToastNotification, SetTag, SetGroup
CreateScheduled(failed) ==
    /\ threads[1].pc = "scheduled"
    /\ LET data == threads[1].data[1]
           delivery_time == schedule_to_datetime(data.schedule[1], AdapterNow)
       IN  IF ~delivery_time.ok THEN Returned(delivery_time)
           ELSE IF failed THEN Returned(Err(InvokeRejected))
           ELSE /\ threads' =
                      <<[Proceed("AddToSchedule", "create")
                           EXCEPT !.toast =
                              Some(ScheduledToast(show_tag(data), native_group(data.group),
                                                  threads[1].toast[1], delivery_time.val))]>>
                /\ UNCHANGED last
    /\ UNCHANGED <<adapter, action_types, click_listener_active, scheduled, history,
                   spawned, conv>>

\* CreateToastNotification, SetTag, SetGroup, is_click_listener_active()? and
\* toast.Activated(..)?
CreateImmediate(failed, poisoned) ==
    /\ threads[1].pc = "immediate"
    /\ LET data == threads[1].data[1]
           handler == IF click_listener_active THEN Some(handler_notification(data))
                      ELSE None
       IN  IF poisoned THEN Returned(Err(LockPoisoned))
           ELSE IF failed THEN Returned(Err(InvokeRejected))
           ELSE /\ threads' =
                      <<[Proceed("Show", "create")
                           EXCEPT !.toast =
                              Some(Toast(show_tag(data), native_group(data.group),
                                         threads[1].toast[1], handler, Some(data)))]>>
                /\ UNCHANGED last
    /\ UNCHANGED <<adapter, action_types, click_listener_active, scheduled, history,
                   spawned, conv>>

\* a mutated show(): the event is triggered before the native call is made
NativeCall_triggering(failed) ==
    /\ threads[1].pc \in {"AddToSchedule", "Show"}
    /\ LET triggered ==
               [threads[1] EXCEPT
                   !.events = @ \o Delivered(<<notification_event(threads[1].data[1])>>,
                                             <<TRUE>>),
                   !.steps = Append(@, "trigger")]
       IN  IF failed
           THEN /\ last' = Call("show", triggered.data[1], triggered.steps,
                                Err(InvokeRejected), triggered.events)
                /\ threads' = <<NotInShow>>
                /\ UNCHANGED <<scheduled, history>>
           ELSE /\ threads' = <<[triggered EXCEPT !.pc = "return",
                                                  !.steps = Append(@, threads[1].pc)]>>
                /\ IF threads[1].pc = "AddToSchedule"
                   THEN /\ scheduled' = Append(scheduled, threads[1].toast[1])
                        /\ UNCHANGED history
                   ELSE /\ history' = native_show(history, threads[1].toast[1])
                        /\ UNCHANGED scheduled
                /\ UNCHANGED last
    /\ UNCHANGED <<adapter, action_types, click_listener_active, spawned, conv>>

\* self.plugin.notifier.AddToSchedule(&scheduled)? or self.plugin.notifier.Show(&toast)?
NativeCall(failed) ==
    /\ threads[1].pc \in {"AddToSchedule", "Show"}
    /\ IF failed
       THEN /\ Returned(Err(InvokeRejected))
            /\ UNCHANGED <<scheduled, history>>
       ELSE /\ threads' = <<Proceed("trigger", threads[1].pc)>>
            /\ IF threads[1].pc = "AddToSchedule"
               THEN /\ scheduled' = Append(scheduled, threads[1].toast[1])
                    /\ UNCHANGED history
               ELSE /\ history' = native_show(history, threads[1].toast[1])
                    /\ UNCHANGED scheduled
            /\ UNCHANGED last
    /\ UNCHANGED <<adapter, action_types, click_listener_active, spawned, conv>>

\* crate::listeners::trigger("notification", payload); a failure is logged
TriggerNotification(delivered) ==
    /\ threads[1].pc = "trigger"
    /\ threads' =
          <<[Proceed("return", "trigger")
               EXCEPT !.events = @ \o Delivered(<<notification_event(threads[1].data[1])>>,
                                                <<delivered>>)]>>
    /\ UNCHANGED <<adapter, action_types, click_listener_active, scheduled, history,
                   spawned, last, conv>>

\* Ok(())
ReturnOk ==
    /\ threads[1].pc = "return"
    /\ Returned(Ok(Unit))
    /\ UNCHANGED <<adapter, action_types, click_listener_active, scheduled, history,
                   spawned, conv>>

\* the click-listener flag and the registry are set between the calls
NextSteps ==
    \/ \E data \in StepDatas : BeginShow(data)
    \/ \E poisoned \in BOOLEAN : ReadActionTypes(poisoned)
    \/ \E failed \in BOOLEAN : BuildToastXml(failed)
    \/ \E failed \in BOOLEAN : CreateScheduled(failed)
    \/ \E failed \in BOOLEAN, poisoned \in BOOLEAN : CreateImmediate(failed, poisoned)
    \/ \E failed \in BOOLEAN : NativeCall(failed)
    \/ \E delivered \in BOOLEAN : TriggerNotification(delivered)
    \/ ReturnOk
    \/ \E active \in BOOLEAN : threads[1].pc = "idle" /\ SetClickListenerActive(active, FALSE)

SpecSteps == InitSteps /\ [][NextSteps]_vars

\* the "notification" events among the events of a call
NotificationEvents(events) == {i \in DOMAIN events : events[i].event = "notification"}

\* the native call that returned successfully before statement i of a call
NativeBefore(steps, i) ==
    \E j \in 1..(i - 1) : steps[j] \in {"Show", "AddToSchedule"}

\* C28: a show() that returns Err has triggered no "notification" event, and
\* in every show() the "notification" event is triggered only after the native
\* Show or AddToSchedule call of that show() has returned successfully.
C28_EventAfterNative ==
    /\ (last.op = "show" /\ ~last.result.ok) => NotificationEvents(last.events) = {}
    /\ \A call \in {[steps |-> threads[1].steps, events |-> threads[1].events],
                    [steps |-> IF last.op = "show" THEN last.native ELSE <<>>,
                     events |-> last.events]} :
          /\ \A i \in DOMAIN call.steps :
                call.steps[i] = "trigger" => NativeBefore(call.steps, i)
          /\ NotificationEvents(call.events) # {} =>
                \E i \in DOMAIN call.steps : call.steps[i] = "trigger"

\* a show() returned the error of its native call, and the next one has
\* triggered its event, which was not delivered, after AddToSchedule returned
C28_Witness ==
    /\ last.op = "show"
    /\ ~last.result.ok
    /\ last.native = <<"action_types", "build_toast_xml", "create">>
    /\ threads[1].pc = "return"
    /\ threads[1].steps = <<"action_types", "build_toast_xml", "create", "AddToSchedule",
                            "trigger">>
    /\ ~threads[1].events[1].delivered

(***************************************************************************)
(* The Windows adapter with notifications scheduled in every way: At with  *)
(* repeating and allow_while_idle set, Interval and Every; pending() reads *)
(* them back, and the delivery time of a scheduled toast can be unreadable.*)
(***************************************************************************)
DayAndHour == ScheduleInterval(None, None, Some(1), None, Some(1), None, None)

PendingScope ==
    [datas |-> DataSet({1}, {None}, {None}, {Some(ScheduleAt(Date2025, TRUE, TRUE))},
                       {FirstContent})
               \cup DataSet({2}, {None}, {None},
                            {Some(Schedule_Interval(DayAndHour, TRUE)),
                             Some(Schedule_Interval(DayAndHour, FALSE))},
                            {SecondContent})
               \cup DataSet({-3}, {Some("g")}, {None}, {Some(EveryDay)}, {FirstContent}),
     show_faults |-> {"none"},
     type_lists |-> {<<>>},
     listener |-> {FALSE},
     cancel_lists |-> {OneId},
     remove_lists |-> {OneId},
     call_faults |-> {FALSE},
     cancel_item_faults |-> FALSE,
     remove_item_faults |-> FALSE,
     read_faults |-> {"delivery"},
     deliveries |-> {TRUE},
     removals |-> {TRUE},
     poisoned |-> {FALSE}]

NextPending == WindowsNext(PendingScope)

SpecPending == InitAdapter("windows") /\ [][NextPending]_vars

\* C29 as stated: a show() with a schedule stores a toast tagged with its id
\* and due at the instant of the schedule, and pending() reports every stored
\* toast, in order, with that id and as Schedule::At of the stored instant
\* with repeating and allow_while_idle false.
C29_AsStated ==
    [][/\ (last'.op = "show" /\ last'.result.ok /\ last'.args.schedule # None) =>
             LET toast == scheduled'[Len(scheduled')]
             IN  /\ toast.tag = i32_to_string(last'.args.id)
                 /\ Ok(toast.delivery_time) =
                       schedule_to_datetime(last'.args.schedule[1], AdapterNow)
       /\ (last'.op = "pending") =>
             /\ last'.result.ok
             /\ Len(last'.result.val) = Len(scheduled')
             /\ \A i \in DOMAIN scheduled' :
                   LET reported == last'.result.val[i]
                   IN  /\ i32_to_string(reported.id) = scheduled'[i].tag
                       /\ reported.schedule.kind = "At"
                       /\ ~reported.schedule.repeating
                       /\ ~reported.schedule.allow_while_idle
                       /\ unix_to_windows_datetime(reported.schedule.date) =
                             Ok(scheduled'[i].delivery_time)]_vars

\* C30: show() attaches an Activated handler exactly to a toast it shows at
\* once after reading the click-listener flag as true; a scheduled toast has
\* no handler, every toast with a handler was shown at once, and the
\* activation of a toast that was scheduled triggers neither "actionPerformed"
\* nor "notificationClicked", whatever the flag is then.
C30_HandlerOnlyImmediate ==
    [][/\ (last'.op = "show" /\ last'.result.ok) =>
             IF last'.args.schedule = None
             THEN (history'[Len(history')].handler # None) <=> click_listener_active
             ELSE "handler" \notin DOMAIN scheduled'[Len(scheduled')]
       /\ \A i \in DOMAIN history' :
             history'[i].handler # None =>
                /\ history'[i].shown # None
                /\ history'[i].shown[1].schedule = None
       /\ (last'.op = "activate" /\ last'.args.toast.shown = None) =>
             \A i \in DOMAIN last'.events :
                last'.events[i].event \notin {"actionPerformed", "notificationClicked"}]_vars

\* a toast that was scheduled is activated while the click-listener flag is
\* true, beside a toast shown at once that has a handler
C30_Witness ==
    /\ last.op = "activate"
    /\ last.args.toast.shown = None
    /\ last.events = <<>>
    /\ click_listener_active
    /\ \E i \in DOMAIN history : history[i].handler # None

====
